---------------------------- MODULE Spec2Model ----------------------------
(***************************************************************************)
(* SQL-AGENT request-orchestration pipeline: allowlist, query planner,     *)
(* executor, presentation composer, orchestrator graphs (Router-as-CEO and *)
(* Supervisor variants) and the /v1/chat/stream event protocol.            *)
(*                                                                         *)
(* Text is modelled as a sequence of one-character strings, so that the    *)
(* substring tests of the Python code ("kw in q_lower") are computed and   *)
(* not assumed.  Accented letters are written a', e', i', o', u', n~ and   *)
(* count as one character each.  A reference string such as               *)
(* "ts.sales_by_day" is modelled by its split form <<"ts","sales_by_day">>.*)
(***************************************************************************)
EXTENDS Integers, Sequences, FiniteSets, TLC

VARIABLES
    \* ---- planner / executor / composer pipeline (DataAgent, PresentationAgent)
    question,       \* the request text
    use_llm,        \* DATA_AGENT_USE_LLM environment flag
    ppc,            \* position of the pipeline: "start","executing","executed","composed","failed"
    plan,           \* QueryPlan.query_ids decided by the planner
    cursor,         \* index of the next plan id execute_plan will run
    pass,           \* 1 = current period, 2 = previous period of a comparison
    payload,        \* DataPayload under construction (payload_current)
    payload_previous, \* DataPayload of the previous period of a comparison
    call,           \* outcome of the last execute_safe_query call
    storeLog,       \* query ids for which the store (REST API) was accessed
    spec,           \* DashboardSpec returned by PresentationAgent.run
    \* ---- orchestrator graph run
    gvariant,       \* "ceo" (insight_graph.py) or "supervisor" (insight_graph_v2.py)
    gentry,         \* entry point: "invoke", "stream", "chat" or "graph"
    gnode,          \* node to run next, or "idle", "END", "returned", "raised"
    gst,            \* graph state
    gsteps,         \* supersteps executed
    glimit,         \* recursion limit of the run
    gevents,        \* events yielded by the streaming generator
    graised,        \* exception that left the entry point, or None
    last_node,      \* last_node of the streaming generator
    \* ---- /v1/chat/stream
    cpc,            \* "off", "request", "init", "streaming", "done", "aborted", "cancelled"
    sse,            \* parts written to the response
    cidx,           \* number of generator events consumed
    conversation_id, \* ChatRequest.conversation_id, or None
    \* ---- conversation history (app/memory/chat_memory.py)
    chat_memories,  \* _chat_memories: thread_id -> ChatMemory._messages
    chat_messages,  \* rows of the chat_messages table
    now,            \* reading of the clock behind datetime.utcnow()
    \* ---- build_params (app/sql/allowlist.py)
    today,          \* ordinal of date.today()
    last_build,     \* the last build_params call: its arguments, day and outcome
    \* ---- IntentRouter (app/agents/intent_router.py)
    routing,        \* what IntentRouter.route returned for the question, or None
    use_llm_router, \* USE_LLM_ROUTER of the process environment
    \* ---- process-wide caches (app/graphs/cache.py, app/db/supabase_client.py)
    node_caches,    \* _router_cache, _data_cache, _presentation_cache: LRUCache._cache
    node_locks,     \* LRUCache._lock of each of the three: its holder, or None
    query_cache,    \* _query_cache: TTLCache._cache
    workers,        \* the executor threads running node code: position and locals
    cache_clock,    \* reading of time.time(), in seconds
    inv_pc,         \* position of the POST /api/cache/invalidate handler
    \* ---- repeated invocations of the heuristics on one question
    rep_clock,      \* reading of the clock behind datetime.now() and utcnow()
    rep_log,        \* the invocations so far: component, reading, output
    \* ---- one language-model call (agents' _invoke_structured, retry_with_backoff)
    rl_caller,      \* the function that makes the call
    rl_cfg,         \* the agent's providers: use_openrouter_primary, llm_openrouter set
    rl_pc,          \* "off", "call", "fallback_call", "sleeping", "returned", "raised"
    rl_errors,      \* the exceptions the calls made so far raised, in order
    rl_waits,       \* the arguments of the time.sleep calls so far, in seconds
    \* ---- one LRUCache object used from several threads (app/graphs/cache.py)
    lru_cache,      \* LRUCache._cache: entries, least recently used first
    lru_clock,      \* reading of time.time()
    lru_threads,    \* the threads: the call each is in and its locals
    lru_recency,    \* keys in the order they were last stored or read by a hit
    lru_last,       \* the last call that completed: what it did and returned
    \* ---- concurrent requests to /v1/chat/stream on the event loop
    rq_registry,    \* _chat_memories: thread_id -> ChatMemory object, 0 for none
    rq_heap,        \* the ChatMemory objects created so far: their _messages
    rq_reqs,        \* the requests: position, thread_id and locals
    rq_running      \* the coroutine that holds the event loop, or None

pipeVars == <<question, use_llm, ppc, plan, cursor, pass, payload, payload_previous,
              call, storeLog, spec>>

graphVars == <<gvariant, gentry, gnode, gst, gsteps, glimit, gevents, graised,
               last_node>>

chatVars == <<cpc, sse, cidx, conversation_id>>

memVars == <<chat_memories, chat_messages, now>>

paramVars == <<today, last_build>>

routerVars == <<routing, use_llm_router>>

cacheVars == <<node_caches, node_locks, query_cache, workers, cache_clock, inv_pc>>

repVars == <<rep_clock, rep_log>>

retryVars == <<rl_caller, rl_cfg, rl_pc, rl_errors, rl_waits>>

lruVars == <<lru_cache, lru_clock, lru_threads, lru_recency, lru_last>>

reqVars == <<rq_registry, rq_heap, rq_reqs, rq_running>>

\* variables of the components a pipeline run does not touch
nonPipeVars == <<graphVars, chatVars, memVars, paramVars, routerVars, cacheVars,
                  repVars, retryVars, lruVars, reqVars>>

\* what a graph run and its chat stream leave alone: the other components
\* and the fields of the request
outsideGraph == <<pipeVars, conversation_id, paramVars, routerVars, cacheVars,
                  repVars, retryVars, lruVars, reqVars>>

\* variables of the components the conversation history does not touch
outsideMemory == <<pipeVars, graphVars, chatVars, paramVars, routerVars, cacheVars,
                  repVars, retryVars, lruVars, reqVars>>

\* variables of the components build_params does not touch
outsideParams == <<pipeVars, graphVars, chatVars, memVars, routerVars, cacheVars,
                  repVars, retryVars, lruVars, reqVars>>

\* variables of the components the router does not touch
outsideRouter == <<pipeVars, graphVars, chatVars, memVars, paramVars, cacheVars,
                  repVars, retryVars, lruVars, reqVars>>

\* variables of the components the caches do not touch
outsideCache == <<pipeVars, graphVars, chatVars, memVars, paramVars, routerVars,
                  repVars, retryVars, lruVars, reqVars>>

\* variables of the components a repeated invocation does not touch
outsideRepeat == <<pipeVars, graphVars, chatVars, memVars, paramVars, routerVars,
                   cacheVars, retryVars, lruVars, reqVars>>

\* variables of the components a language-model call does not touch
outsideRetry == <<pipeVars, graphVars, chatVars, memVars, paramVars, routerVars,
                  cacheVars, repVars, lruVars, reqVars>>

\* variables of the components the LRUCache object does not touch
outsideLRU == <<pipeVars, graphVars, chatVars, memVars, paramVars, routerVars,
                cacheVars, repVars, retryVars, reqVars>>

\* variables of the components the concurrent requests do not touch
outsideRequests == <<pipeVars, graphVars, chatVars, memVars, paramVars, routerVars,
                     cacheVars, repVars, retryVars, lruVars>>

vars == <<pipeVars, graphVars, chatVars, memVars, paramVars, routerVars, cacheVars,
          repVars, retryVars, lruVars, reqVars>>

None == "None"

-----------------------------------------------------------------------------
(* Text helpers: Python str.lower() and the "in" substring test.           *)

UpperToLower == [c \in {"S", "V", "H", "O", "K"} |->
                    CASE c = "S" -> "s" [] c = "V" -> "v" [] c = "H" -> "h"
                      [] c = "O" -> "o" [] c = "K" -> "k"]

\* str.lower()
Lower(s) == [i \in 1..Len(s) |->
                IF s[i] \in DOMAIN UpperToLower THEN UpperToLower[s[i]] ELSE s[i]]

\* kw in s
Contains(s, kw) ==
    \E i \in 1..(Len(s) - Len(kw) + 1) : SubSeq(s, i, i + Len(kw) - 1) = kw

\* any(kw in s for kw in kws)
AnyKw(s, kws) == \E kw \in kws : Contains(s, kw)

-----------------------------------------------------------------------------
(* Keyword families of DataAgent._decide_queries_heuristic and             *)
(* DataAgent.decide_queries, and the sample questions.                     *)

\* "agente", "ai", "interacci", "bot", "asistente"
KwAgenteAI ==
    { <<"a","g","e","n","t","e">>,
      <<"a","i">>,
      <<"i","n","t","e","r","a","c","c","i">>,
      <<"b","o","t">>,
      <<"a","s","i","s","t","e","n","t","e">> }

\* "escalad"
KwEscalad ==
    { <<"e","s","c","a","l","a","d">> }

\* "enero", "febrero", "marzo", "abril", "mayo", "junio", "julio", "agosto", "septiembre", "octubre", "noviembre", "diciembre"
KwMesEspecifico ==
    { <<"e","n","e","r","o">>,
      <<"f","e","b","r","e","r","o">>,
      <<"m","a","r","z","o">>,
      <<"a","b","r","i","l">>,
      <<"m","a","y","o">>,
      <<"j","u","n","i","o">>,
      <<"j","u","l","i","o">>,
      <<"a","g","o","s","t","o">>,
      <<"s","e","p","t","i","e","m","b","r","e">>,
      <<"o","c","t","u","b","r","e">>,
      <<"n","o","v","i","e","m","b","r","e">>,
      <<"d","i","c","i","e","m","b","r","e">> }

\* "ciclo", "estacionalidad", "temporada", "patron", "patr?n"
KwCiclo ==
    { <<"c","i","c","l","o">>,
      <<"e","s","t","a","c","i","o","n","a","l","i","d","a","d">>,
      <<"t","e","m","p","o","r","a","d","a">>,
      <<"p","a","t","r","o","n">>,
      <<"p","a","t","r","o'","n">> }

\* "mejor mes", "peor mes", "mes que mas", "mes que m?s", "cual mes", "cu?l mes", "que mes", "qu? mes"
KwMejorMes ==
    { <<"m","e","j","o","r"," ","m","e","s">>,
      <<"p","e","o","r"," ","m","e","s">>,
      <<"m","e","s"," ","q","u","e"," ","m","a","s">>,
      <<"m","e","s"," ","q","u","e"," ","m","a'","s">>,
      <<"c","u","a","l"," ","m","e","s">>,
      <<"c","u","a'","l"," ","m","e","s">>,
      <<"q","u","e"," ","m","e","s">>,
      <<"q","u","e'"," ","m","e","s">> }

\* "insight", "analisis profundo", "an?lisis profundo", "analiza todo", "resumen ejecutivo", "executive summary"
KwInsight ==
    { <<"i","n","s","i","g","h","t">>,
      <<"a","n","a","l","i","s","i","s"," ","p","r","o","f","u","n","d","o">>,
      <<"a","n","a'","l","i","s","i","s"," ","p","r","o","f","u","n","d","o">>,
      <<"a","n","a","l","i","z","a"," ","t","o","d","o">>,
      <<"r","e","s","u","m","e","n"," ","e","j","e","c","u","t","i","v","o">>,
      <<"e","x","e","c","u","t","i","v","e"," ","s","u","m","m","a","r","y">> }

\* "pareto", "80/20", "80-20", "concentracion", "concentraci?n", "abc"
KwPareto ==
    { <<"p","a","r","e","t","o">>,
      <<"8","0","/","2","0">>,
      <<"8","0","-","2","0">>,
      <<"c","o","n","c","e","n","t","r","a","c","i","o","n">>,
      <<"c","o","n","c","e","n","t","r","a","c","i","o'","n">>,
      <<"a","b","c">> }

\* "ticket", "promedio de compra", "valor promedio", "orden promedio"
KwTicket ==
    { <<"t","i","c","k","e","t">>,
      <<"p","r","o","m","e","d","i","o"," ","d","e"," ","c","o","m","p","r","a">>,
      <<"v","a","l","o","r"," ","p","r","o","m","e","d","i","o">>,
      <<"o","r","d","e","n"," ","p","r","o","m","e","d","i","o">> }

\* "mas vendido", "m?s vendido", "mas vendidos", "m?s vendidos", "top producto", "top productos", "mejores producto", "mejores productos"
KwMasVendido ==
    { <<"m","a","s"," ","v","e","n","d","i","d","o">>,
      <<"m","a'","s"," ","v","e","n","d","i","d","o">>,
      <<"m","a","s"," ","v","e","n","d","i","d","o","s">>,
      <<"m","a'","s"," ","v","e","n","d","i","d","o","s">>,
      <<"t","o","p"," ","p","r","o","d","u","c","t","o">>,
      <<"t","o","p"," ","p","r","o","d","u","c","t","o","s">>,
      <<"m","e","j","o","r","e","s"," ","p","r","o","d","u","c","t","o">>,
      <<"m","e","j","o","r","e","s"," ","p","r","o","d","u","c","t","o","s">> }

\* "inventario", "stock", "existencia"
KwInventario ==
    { <<"i","n","v","e","n","t","a","r","i","o">>,
      <<"s","t","o","c","k">>,
      <<"e","x","i","s","t","e","n","c","i","a">> }

\* "bajo", "alerta", "falta", "critico", "cr?tico"
KwStockBajo ==
    { <<"b","a","j","o">>,
      <<"a","l","e","r","t","a">>,
      <<"f","a","l","t","a">>,
      <<"c","r","i","t","i","c","o">>,
      <<"c","r","i'","t","i","c","o">> }

\* "producto"
KwProducto ==
    { <<"p","r","o","d","u","c","t","o">> }

\* "vendido", "venta", "revenue"
KwNoVendido ==
    { <<"v","e","n","d","i","d","o">>,
      <<"v","e","n","t","a">>,
      <<"r","e","v","e","n","u","e">> }

\* "venta", "factura", "ingreso", "revenue", "vendido", "vendieron", "facturado"
KwVentas ==
    { <<"v","e","n","t","a">>,
      <<"f","a","c","t","u","r","a">>,
      <<"i","n","g","r","e","s","o">>,
      <<"r","e","v","e","n","u","e">>,
      <<"v","e","n","d","i","d","o">>,
      <<"v","e","n","d","i","e","r","o","n">>,
      <<"f","a","c","t","u","r","a","d","o">> }

\* "quebrar", "quiebre", "agotar", "agotarse", "agotando", "faltante", "reponer", "reposicion", "reposici?n"
KwQuiebre ==
    { <<"q","u","e","b","r","a","r">>,
      <<"q","u","i","e","b","r","e">>,
      <<"a","g","o","t","a","r">>,
      <<"a","g","o","t","a","r","s","e">>,
      <<"a","g","o","t","a","n","d","o">>,
      <<"f","a","l","t","a","n","t","e">>,
      <<"r","e","p","o","n","e","r">>,
      <<"r","e","p","o","s","i","c","i","o","n">>,
      <<"r","e","p","o","s","i","c","i","o'","n">> }

\* "aumentar stock", "aumentar inventario", "ponderar", "priorizar", "debo comprar"
KwAumentarStock ==
    { <<"a","u","m","e","n","t","a","r"," ","s","t","o","c","k">>,
      <<"a","u","m","e","n","t","a","r"," ","i","n","v","e","n","t","a","r","i","o">>,
      <<"p","o","n","d","e","r","a","r">>,
      <<"p","r","i","o","r","i","z","a","r">>,
      <<"d","e","b","o"," ","c","o","m","p","r","a","r">> }

\* "preventa", "consulta", "pregunta"
KwPreventa ==
    { <<"p","r","e","v","e","n","t","a">>,
      <<"c","o","n","s","u","l","t","a">>,
      <<"p","r","e","g","u","n","t","a">> }

\* "inventario", "stock", "venta", "ventas", "producto", "orden", "ordenes", "agente", "escalado", "preventa", "kpi", "resumen", "dashboard", "vendido", "facturado", "revenue", "ingresos", "ticket", "enero", "febrero", "marzo", "abril", "mayo", "junio", "julio", "agosto", "septiembre", "octubre", "noviembre", "diciembre", "mes", "semana", "dia", "a?o", "hoy", "ayer", "ultimos", "reciente"
ClearKeywords ==
    { <<"i","n","v","e","n","t","a","r","i","o">>,
      <<"s","t","o","c","k">>,
      <<"v","e","n","t","a">>,
      <<"v","e","n","t","a","s">>,
      <<"p","r","o","d","u","c","t","o">>,
      <<"o","r","d","e","n">>,
      <<"o","r","d","e","n","e","s">>,
      <<"a","g","e","n","t","e">>,
      <<"e","s","c","a","l","a","d","o">>,
      <<"p","r","e","v","e","n","t","a">>,
      <<"k","p","i">>,
      <<"r","e","s","u","m","e","n">>,
      <<"d","a","s","h","b","o","a","r","d">>,
      <<"v","e","n","d","i","d","o">>,
      <<"f","a","c","t","u","r","a","d","o">>,
      <<"r","e","v","e","n","u","e">>,
      <<"i","n","g","r","e","s","o","s">>,
      <<"t","i","c","k","e","t">>,
      <<"e","n","e","r","o">>,
      <<"f","e","b","r","e","r","o">>,
      <<"m","a","r","z","o">>,
      <<"a","b","r","i","l">>,
      <<"m","a","y","o">>,
      <<"j","u","n","i","o">>,
      <<"j","u","l","i","o">>,
      <<"a","g","o","s","t","o">>,
      <<"s","e","p","t","i","e","m","b","r","e">>,
      <<"o","c","t","u","b","r","e">>,
      <<"n","o","v","i","e","m","b","r","e">>,
      <<"d","i","c","i","e","m","b","r","e">>,
      <<"m","e","s">>,
      <<"s","e","m","a","n","a">>,
      <<"d","i","a">>,
      <<"a","n~","o">>,
      <<"h","o","y">>,
      <<"a","y","e","r">>,
      <<"u","l","t","i","m","o","s">>,
      <<"r","e","c","i","e","n","t","e">> }

\* "eso", "esto", "aquello", "lo mismo", "esos datos", "lo anterior", "mas de eso", "y de eso", "que mas", "amplia", "detalla"
AmbiguousRefs ==
    { <<"e","s","o">>,
      <<"e","s","t","o">>,
      <<"a","q","u","e","l","l","o">>,
      <<"l","o"," ","m","i","s","m","o">>,
      <<"e","s","o","s"," ","d","a","t","o","s">>,
      <<"l","o"," ","a","n","t","e","r","i","o","r">>,
      <<"m","a","s"," ","d","e"," ","e","s","o">>,
      <<"y"," ","d","e"," ","e","s","o">>,
      <<"q","u","e"," ","m","a","s">>,
      <<"a","m","p","l","i","a">>,
      <<"d","e","t","a","l","l","a">> }

Questions ==
    { <<"a","g","e","n","t","e"," ","e","s","c","a","l","a","d","o">>,   \* agente escalado
      <<"e","s","c","a","l","a","d","o","s">>,   \* escalados
      <<"v","e","n","t","a","s"," ","d","e"," ","e","n","e","r","o">>,   \* ventas de enero
      <<"c","i","c","l","o">>,   \* ciclo
      <<"m","e","j","o","r"," ","m","e","s">>,   \* mejor mes
      <<"i","n","s","i","g","h","t">>,   \* insight
      <<"p","a","r","e","t","o">>,   \* pareto
      <<"t","i","c","k","e","t">>,   \* ticket
      <<"m","a","s"," ","v","e","n","d","i","d","o","s">>,   \* mas vendidos
      <<"S","t","o","c","k"," ","b","a","j","o">>,   \* Stock bajo
      <<"i","n","v","e","n","t","a","r","i","o">>,   \* inventario
      <<"p","r","o","d","u","c","t","o","s">>,   \* productos
      <<"v","e","n","t","a","s">>,   \* ventas
      <<"q","u","i","e","b","r","e">>,   \* quiebre
      <<"p","r","i","o","r","i","z","a","r">>,   \* priorizar
      <<"p","r","e","v","e","n","t","a">>,   \* preventa
      <<"h","o","l","a">>,   \* hola
      <<"y"," ","d","e"," ","e","s","o">>,   \* y de eso
      <<"a","m","p","l","i","a"," ","v","e","n","t","a","s">>,   \* amplia ventas
      <<"p","r","i","o","r","i","z","a","r"," ","e","s","t","a"," ","s","e","m","a","n","a">>,   \* priorizar esta semana
      <<"v","e","n","t","a","s"," ","d","e"," ","d","i","c","i","e","m","b","r","e"," ","v","s"," ","n","o","v","i","e","m","b","r","e">>,   \* ventas de diciembre vs noviembre
      <<"v","e","n","t","a","s"," ","u","l","t","i","m","o","s"," ","9","9","9","9","9","9","9"," ","d","i","a","s">>,   \* ventas ultimos 9999999 dias
      <<"c","o","n","s","u","l","t","a","s">> } \* consultas

-----------------------------------------------------------------------------
(* SQL allowlist (app/sql/allowlist.py).                                   *)

\* keys of QUERY_ALLOWLIST
QUERY_ALLOWLIST ==
    { "products_inventory", "products_low_stock", "top_products_by_sales",
      "ai_interactions_summary", "recent_ai_interactions", "escalated_cases",
      "interactions_by_case_type", "preventa_summary", "recent_preventa_queries",
      "stock_alerts", "kpi_sales_summary", "ts_sales_by_day", "sales_by_month",
      "top_products_by_revenue", "recent_orders", "sales_by_channel" }

\* ids named by the planner's branches that are not allowlist keys
ForeignIds ==
    { "kpi_inventory_summary", "stock_reorder_analysis", "ts_top_product_sales" }

validate_query_id(query_id) == query_id \in QUERY_ALLOWLIST

\* "output_type" of each template
output_type(query_id) ==
    CASE query_id \in {"ai_interactions_summary", "preventa_summary",
                       "kpi_sales_summary"} -> "kpi"
      [] query_id \in {"ts_sales_by_day", "sales_by_month"} -> "time_series"
      [] query_id \in {"top_products_by_sales", "interactions_by_case_type",
                       "top_products_by_revenue", "sales_by_channel"} -> "top_items"
      [] OTHER -> "table"

\* "output_ref" of each template, split at "."
output_ref(query_id) ==
    CASE query_id = "products_inventory"        -> <<"table", "products_inventory">>
      [] query_id = "products_low_stock"        -> <<"table", "products_low_stock">>
      [] query_id = "top_products_by_sales"     -> <<"top", "products_by_sales">>
      [] query_id = "ai_interactions_summary"   -> <<"kpi", "ai_interactions">>
      [] query_id = "recent_ai_interactions"    -> <<"table", "recent_ai_interactions">>
      [] query_id = "escalated_cases"           -> <<"table", "escalated_cases">>
      [] query_id = "interactions_by_case_type" -> <<"top", "interactions_by_case_type">>
      [] query_id = "preventa_summary"          -> <<"kpi", "preventa">>
      [] query_id = "recent_preventa_queries"   -> <<"table", "recent_preventa">>
      [] query_id = "stock_alerts"              -> <<"table", "stock_alerts">>
      [] query_id = "kpi_sales_summary"         -> <<"kpi">>
      [] query_id = "ts_sales_by_day"           -> <<"ts", "sales_by_day">>
      [] query_id = "sales_by_month"            -> <<"ts", "sales_by_month">>
      [] query_id = "top_products_by_revenue"   -> <<"top", "products_by_revenue">>
      [] query_id = "recent_orders"             -> <<"table", "recent_orders">>
      [] query_id = "sales_by_channel"          -> <<"top", "sales_by_channel">>

\* QUERY_ALLOWLIST.get(query_id) of an unknown id
NoTemplate == [output_type |-> None, output_ref |-> <<>>]

\* get_query_template: the template, or None for an unknown id
get_query_template(query_id) ==
    IF query_id \in QUERY_ALLOWLIST
    THEN [output_type |-> output_type(query_id), output_ref |-> output_ref(query_id)]
    ELSE NoTemplate

-----------------------------------------------------------------------------
(* Query planner (DataAgent.decide_queries).                               *)

decide_queries_heuristic(q) ==
    LET q_lower == Lower(q) IN
    IF AnyKw(q_lower, KwAgenteAI)
    THEN <<"ai_interactions_summary", "recent_ai_interactions">>
         \o (IF AnyKw(q_lower, KwEscalad) THEN <<"escalated_cases">> ELSE <<>>)
    ELSE IF AnyKw(q_lower, KwEscalad)
    THEN <<"escalated_cases", "ai_interactions_summary">>
    ELSE IF AnyKw(q_lower, KwMesEspecifico)
    THEN <<"kpi_sales_summary", "sales_by_month", "top_products_by_revenue">>
    ELSE IF AnyKw(q_lower, KwCiclo)
    THEN <<"kpi_sales_summary", "sales_by_month", "ts_sales_by_day">>
    ELSE IF AnyKw(q_lower, KwMejorMes)
    THEN <<"kpi_sales_summary", "sales_by_month", "top_products_by_revenue">>
    ELSE IF AnyKw(q_lower, KwInsight)
    THEN <<"kpi_sales_summary", "ts_sales_by_day", "top_products_by_revenue">>
    ELSE IF AnyKw(q_lower, KwPareto)
    THEN <<"kpi_sales_summary", "top_products_by_revenue", "ts_sales_by_day">>
    ELSE IF AnyKw(q_lower, KwTicket)
    THEN <<"kpi_sales_summary", "ts_sales_by_day", "recent_orders">>
    ELSE IF AnyKw(q_lower, KwMasVendido)
    THEN <<"kpi_sales_summary", "top_products_by_revenue", "sales_by_month">>
    ELSE IF AnyKw(q_lower, KwInventario)
    THEN IF AnyKw(q_lower, KwStockBajo)
         THEN <<"kpi_inventory_summary", "products_low_stock", "stock_reorder_analysis">>
         ELSE <<"kpi_inventory_summary", "stock_reorder_analysis", "stock_alerts">>
    ELSE IF AnyKw(q_lower, KwProducto) /\ ~AnyKw(q_lower, KwNoVendido)
    THEN <<"kpi_inventory_summary", "products_inventory", "top_products_by_sales">>
    ELSE IF AnyKw(q_lower, KwVentas)
    THEN <<"kpi_sales_summary", "ts_sales_by_day", "top_products_by_revenue">>
    ELSE IF AnyKw(q_lower, KwQuiebre)
    THEN <<"kpi_sales_summary", "stock_reorder_analysis", "ts_top_product_sales">>
    ELSE IF AnyKw(q_lower, KwAumentarStock)
    THEN <<"kpi_sales_summary", "stock_reorder_analysis", "ts_top_product_sales",
           "products_low_stock">>
    ELSE IF AnyKw(q_lower, KwPreventa)
    THEN <<"preventa_summary", "recent_preventa_queries">>
    ELSE <<"kpi_sales_summary", "ts_sales_by_day", "top_products_by_revenue">>

\* whether decide_queries answers from the keyword route without the model
UsesHeuristic(q, llm_enabled) ==
    LET q_lower == Lower(q) IN
    \/ AnyKw(q_lower, ClearKeywords) /\ ~AnyKw(q_lower, AmbiguousRefs)
    \/ ~llm_enabled

\* longest QueryPlan.query_ids the language model is let to return
MaxLLMIds == 4

\* ids the language model draws from
LLMIds == { "kpi_sales_summary", "recent_orders", "kpi_inventory_summary" }

\* outcomes of _invoke_structured: an exception, or a QueryPlan
LLMOutcomes ==
    { [raised |-> TRUE, query_ids |-> <<>>] } \cup
    { [raised |-> FALSE, query_ids |-> ids] :
        ids \in UNION { [1..n -> LLMIds] : n \in 0..MaxLLMIds } }

decide_queries(q, llm_enabled, llm) ==
    IF UsesHeuristic(q, llm_enabled) THEN decide_queries_heuristic(q)
    ELSE IF llm.raised THEN decide_queries_heuristic(q)
    ELSE LET valid_ids == SelectSeq(llm.query_ids, validate_query_id)
         IN  IF valid_ids = <<>> THEN <<"kpi_sales_summary", "ts_sales_by_day">>
             ELSE valid_ids

-----------------------------------------------------------------------------
(* Store client (SupabaseRESTClient.execute_safe_query).                   *)

\* query ids of the if/elif dispatch of execute_safe_query
RestImplemented == QUERY_ALLOWLIST \cup {"kpi_inventory_summary"}

\* handlers that answer without a request to the store
StoreFree == {"preventa_summary", "recent_preventa_queries"}

\* what the store can answer to the handler of a query id: an API error, no
\* rows, rows, or (sales summary) the one row of zeros of a period without
\* paid orders
DbOutcomes(query_id) ==
    CASE query_id = "preventa_summary"        -> {"rows"}
      [] query_id = "recent_preventa_queries" -> {"empty"}
      [] query_id = "kpi_sales_summary"       -> {"fail", "rows", "zero"}
      [] query_id \in {"ai_interactions_summary", "kpi_inventory_summary"} ->
            {"fail", "rows"}
      [] OTHER -> {"fail", "empty", "rows"}

\* keys of the single row a kpi handler returns
KpiRowKeys(query_id) ==
    CASE query_id = "kpi_sales_summary" ->
            {"total_sales", "total_orders", "avg_order_value", "total_units",
             "data_coverage"}
      [] query_id = "ai_interactions_summary" ->
            {"total_interactions", "escalated_count", "escalation_rate",
             "auto_responded", "auto_response_rate", "pendientes", "resueltos"}
      [] query_id = "preventa_summary" ->
            {"total_queries", "answered", "pending", "answer_rate", "nota"}
      [] OTHER -> {}

\* execute_safe_query without validate_query_id and the template lookup
execute_safe_query_unguarded(query_id, db) ==
    IF query_id \notin RestImplemented
    THEN [query_id |-> query_id, raised |-> "ValueError: no implementada",
          store |-> FALSE, rows |-> "none"]
    ELSE IF db = "fail"
    THEN [query_id |-> query_id, raised |-> "Exception: Supabase API error",
          store |-> query_id \notin StoreFree, rows |-> "none"]
    ELSE [query_id |-> query_id, raised |-> "",
          store |-> query_id \notin StoreFree, rows |-> db]

\* execute_safe_query(query_id, params) when the store answers db:
\* raised names the exception ("" when the call returns), store tells whether
\* a request reached the store, rows is "empty" or "rows" on return.
execute_safe_query(query_id, db) ==
    IF ~validate_query_id(query_id)
    THEN [query_id |-> query_id, raised |-> "ValueError: no esta en el allowlist",
          store |-> FALSE, rows |-> "none"]
    ELSE IF get_query_template(query_id) = NoTemplate
    THEN [query_id |-> query_id, raised |-> "ValueError: no encontrada",
          store |-> FALSE, rows |-> "none"]
    ELSE IF query_id \notin RestImplemented
    THEN [query_id |-> query_id, raised |-> "ValueError: no implementada",
          store |-> FALSE, rows |-> "none"]
    ELSE IF db = "fail"
    THEN [query_id |-> query_id, raised |-> "Exception: Supabase API error",
          store |-> query_id \notin StoreFree, rows |-> "none"]
    ELSE [query_id |-> query_id, raised |-> "",
          store |-> query_id \notin StoreFree, rows |-> db]

NoCall == [query_id |-> None, raised |-> "", store |-> FALSE, rows |-> "none"]

-----------------------------------------------------------------------------
(* Executor (DataAgent.execute_plan, DataAgent.run).                       *)

\* payload.kpis: None, or the KPIData with the fields set so far; zero tells
\* that the sales aggregates are all 0
NoKpis == [present |-> FALSE, fields |-> {}, zero |-> FALSE]

\* truthiness of the rows list
HasRows(r) == r.rows \in {"rows", "zero"}

NoComparison == [present |-> FALSE, deltas |-> {}, delta_pcts |-> {}]

\* DataPayload(datasets_meta=[], available_refs=[])
EmptyPayload ==
    [kpis |-> NoKpis, time_series |-> <<>>, top_items |-> <<>>, tables |-> <<>>,
     raw_rows |-> 0, comparison |-> NoComparison, datasets_meta |-> <<>>,
     available_refs |-> <<>>]

InSeq(x, s) == \E i \in 1..Len(s) : s[i] = x

\* the refs "kpi.<key>" of a kpi row that are not yet in the list, in the
\* order of the row's keys; the order of two refs of one row is immaterial
\* to every reader of available_refs, so one order is fixed
RECURSIVE SetToSeq(_)
SetToSeq(S) ==
    IF S = {} THEN <<>>
    ELSE LET x == CHOOSE y \in S : TRUE IN <<x>> \o SetToSeq(S \ {x})

\* no ref for any key of the row
NewKpiRefs_none(keys, refs) == <<>>

NewKpiRefs(keys, refs) ==
    SetToSeq({ <<"kpi", k>> : k \in { k2 \in keys : ~InSeq(<<"kpi", k2>>, refs) } })

\* an iteration that records nothing
FoldResult_drop(p, r) == p

\* one iteration of the loop of execute_plan: the payload after the query
\* answered r (an execute_safe_query result); an exception leaves it as it is
FoldResult(p, r) ==
    IF r.raised # "" THEN p
    ELSE
    LET qid  == r.query_id
        cfg  == get_query_template(qid)
        p1   == [p EXCEPT !.datasets_meta = Append(@, qid)]
        name == cfg.output_ref[Len(cfg.output_ref)]
    IN  CASE cfg.output_type = "kpi" /\ HasRows(r) ->
               [p1 EXCEPT !.kpis = [present |-> TRUE,
                                    fields |-> @.fields \cup KpiRowKeys(qid),
                                    zero |-> IF qid = "kpi_sales_summary"
                                             THEN r.rows = "zero" ELSE @.zero],
                          !.available_refs = @ \o NewKpiRefs(KpiRowKeys(qid), @)]
          [] cfg.output_type = "time_series" /\ HasRows(r) ->
               [p1 EXCEPT !.time_series = Append(@, name),
                          !.available_refs = Append(@, cfg.output_ref)]
          [] cfg.output_type = "top_items" /\ HasRows(r) ->
               [p1 EXCEPT !.top_items = Append(@, name),
                          !.available_refs = Append(@, cfg.output_ref)]
          [] cfg.output_type = "table" ->
               [p1 EXCEPT !.tables = Append(@, [name |-> cfg.output_ref[2],
                                                 rows |-> r.rows]),
                          !.raw_rows = IF HasRows(r) THEN 1 ELSE @,
                          !.available_refs = Append(@, cfg.output_ref)]
          [] OTHER -> p1

-----------------------------------------------------------------------------
(* Date phrases (app/utils/date_parser.py).                                *)

WordChar(c) == c \notin {" ", ".", "/", "-"}

\* re.search(r'\bkw\b', s) for a keyword of word characters and single blanks
ContainsWord(s, kw) ==
    \E i \in 1..(Len(s) - Len(kw) + 1) :
        /\ SubSeq(s, i, i + Len(kw) - 1) = kw
        /\ (i = 1 \/ ~WordChar(s[i - 1]))
        /\ (i + Len(kw) - 1 = Len(s) \/ ~WordChar(s[i + Len(kw)]))

\* COMPARISON_PATTERNS that the split pattern of extract_comparison_dates
\* also knows: vs, versus, contra, comparado con, comparacion con/de,
\* diferencia con/entre
ComparisonWords ==
    { <<"v","s">>,
      <<"v","e","r","s","u","s">>,
      <<"c","o","n","t","r","a">>,
      <<"c","o","m","p","a","r","a","d","o"," ","c","o","n">>,
      <<"c","o","m","p","a","r","a","c","i","o","n"," ","c","o","n">>,
      <<"c","o","m","p","a","r","a","c","i","o","n"," ","d","e">>,
      <<"d","i","f","e","r","e","n","c","i","a"," ","c","o","n">>,
      <<"d","i","f","e","r","e","n","c","i","a"," ","e","n","t","r","e">> }

\* extract_comparison_dates(question).is_comparison
is_comparison(q) == \E kw \in ComparisonWords : ContainsWord(Lower(q), kw)

\* relative phrases extract_date_range answers before it reads a number
RelativeDateWords ==
    { <<"h","o","y">>,
      <<"a","y","e","r">>,
      <<"e","s","t","a"," ","s","e","m","a","n","a">>,
      <<"s","e","m","a","n","a"," ","p","a","s","a","d","a">>,
      <<"u","l","t","i","m","a"," ","s","e","m","a","n","a">>,
      <<"e","s","t","e"," ","m","e","s">>,
      <<"m","e","s"," ","p","a","s","a","d","o">>,
      <<"u","l","t","i","m","o"," ","m","e","s">> }

Digits == {"0", "1", "2", "3", "4", "5", "6", "7", "8", "9"}

DigitValue(c) ==
    CASE c = "0" -> 0 [] c = "1" -> 1 [] c = "2" -> 2 [] c = "3" -> 3 [] c = "4" -> 4
      [] c = "5" -> 5 [] c = "6" -> 6 [] c = "7" -> 7 [] c = "8" -> 8 [] c = "9" -> 9

\* int(match.group(1))
RECURSIVE ParseInt(_)
ParseInt(ds) ==
    IF ds = <<>> THEN 0
    ELSE 10 * ParseInt(SubSeq(ds, 1, Len(ds) - 1)) + DigitValue(ds[Len(ds)])

UltimosPrefix == <<"u","l","t","i","m","o","s"," ">>
DiasSuffix == <<" ","d","i","a","s">>

\* the day counts N of the phrases "ultimos N dias" of the text
UltimosDias(s) ==
    { ParseInt(SubSeq(s, i + 8, j)) :
        <<i, j>> \in { ij \in (1..Len(s)) \X (1..Len(s)) :
            /\ ij[1] + 8 <= ij[2]
            /\ ij[2] + 5 <= Len(s)
            /\ SubSeq(s, ij[1], ij[1] + 7) = UltimosPrefix
            /\ \A k \in (ij[1] + 8)..ij[2] : s[k] \in Digits
            /\ SubSeq(s, ij[2] + 1, ij[2] + 5) = DiasSuffix } }

\* date.today().toordinal(): days since 0001-01-01 (here 2025-12-26)
TodayOrdinal == 739611

\* extract_date_range raises OverflowError when today - timedelta(days=N)
\* falls before date.min
extract_date_range_raises(q) ==
    LET s == Lower(q) IN
    /\ ~ \E kw \in RelativeDateWords : ContainsWord(s, kw)
    /\ \E n \in UltimosDias(s) : TodayOrdinal - n < 1

-----------------------------------------------------------------------------
(* DataAgent.run: decide the plan, execute it (twice for a comparison),    *)
(* fold the comparison.                                                    *)

\* metrics whose delta DataAgent.run computes, with their KPI field
DeltaMetrics == {"total_sales", "total_orders", "avg_order_value", "total_units"}

\* payload_current with the comparison of DataAgent.run folded in
WithComparison(cur, prev_kpis) ==
    LET both == cur.kpis.present /\ prev_kpis.present
        defined == IF both THEN DeltaMetrics \cap cur.kpis.fields \cap prev_kpis.fields
                   ELSE {}
        pcts == IF prev_kpis.zero THEN {} ELSE defined
    IN  [cur EXCEPT !.comparison = [present |-> TRUE, deltas |-> defined,
                                    delta_pcts |-> pcts],
                    !.available_refs = Append(@, <<"comparison">>)]

-----------------------------------------------------------------------------
(* Presentation composer (PresentationAgent).                              *)

\* value_ref of the KPI cards of the comparison mode (kpi_configs)
ComparisonKpiRefs ==
    << <<"kpi", "total_sales">>, <<"kpi", "total_orders">>,
       <<"kpi", "avg_order_value">>, <<"kpi", "total_units">> >>

\* value_ref of the KPI cards of the normal mode (all_kpis)
AllKpiRefs ==
    ComparisonKpiRefs \o
    << <<"kpi", "total_interactions">>, <<"kpi", "escalated_count">>,
       <<"kpi", "escalation_rate">>, <<"kpi", "auto_responded">>,
       <<"kpi", "auto_response_rate">>, <<"kpi", "total_queries">>,
       <<"kpi", "answered">>, <<"kpi", "pending">>, <<"kpi", "answer_rate">> >>

NoRef == <<>>

KpiCardConfig(value_ref, delta_ref) == [value_ref |-> value_ref, delta_ref |-> delta_ref]

ChartConfig(type, dataset_ref) ==
    [class |-> "ChartConfig", type |-> type, dataset_ref |-> dataset_ref]

TableConfig(dataset_ref) ==
    [class |-> "TableConfig", type |-> "table", dataset_ref |-> dataset_ref]

ComparisonChartConfig(dataset_ref) ==
    [class |-> "ComparisonChartConfig", type |-> "comparison_bar",
     dataset_ref |-> dataset_ref]

\* [f(s[i]) : i] for the s[i] that pass the test
MapFilter(s, Test(_), F(_)) ==
    LET t == SelectSeq(s, Test) IN [i \in 1..Len(t) |-> F(t[i])]

\* series names of the time_series templates that contain "revenue"
RevenueSeriesNames == {}

\* area_chart for a series whose name contains "revenue", else line_chart
SeriesChartType(name) ==
    IF name \in RevenueSeriesNames THEN "area_chart" ELSE "line_chart"

\* _build_spec_heuristic(question, payload): slots.series and slots.charts
build_spec_heuristic(p) ==
    LET avail(ref) == InSeq(ref, p.available_refs)
        tsOk(n)  == avail(<<"ts", n>>)
        topOk(n) == avail(<<"top", n>>)
        topChart(n) == ChartConfig("bar_chart", <<"top", n>>)
    IN
    IF p.comparison.present
    THEN LET cmpCard(ref) ==
                 KpiCardConfig(ref,
                     IF ref[2] \in p.comparison.delta_pcts
                     THEN <<"comparison", "delta_", ref[2], "_pct">> ELSE NoRef)
             lineChart(n) == ChartConfig("line_chart", <<"ts", n>>)
         IN  [series |-> MapFilter(ComparisonKpiRefs, avail, cmpCard),
              charts |-> (IF p.comparison.deltas # {}
                          THEN <<ComparisonChartConfig(<<"comparison">>)>> ELSE <<>>)
                         \o MapFilter(p.time_series, tsOk, lineChart)
                         \o MapFilter(p.top_items, topOk, topChart)]
    ELSE LET card(ref) == KpiCardConfig(ref, NoRef)
             tsChart(n) == ChartConfig(SeriesChartType(n), <<"ts", n>>)
         IN  [series |-> IF p.kpis.present THEN MapFilter(AllKpiRefs, avail, card)
                         ELSE <<>>,
              charts |-> MapFilter(p.time_series, tsOk, tsChart)
                         \o MapFilter(p.top_items, topOk, topChart)
                         \o (IF p.raw_rows > 0
                             THEN <<TableConfig(<<"table", "recent_orders">>)>>
                             ELSE <<>>)]

\* validate_refs(spec, available_refs)
validate_refs(sp, available_refs) ==
    LET kpiOk(kpi) == InSeq(kpi.value_ref, available_refs)
        chartOk(chart) ==
            /\ chart.class \in {"ChartConfig", "TableConfig"}
            /\ \E i \in 1..Len(available_refs) :
                  \* ref.startswith(dataset_ref.split(".")[0] + ".")
                  \/ Len(available_refs[i]) >= 2
                     /\ available_refs[i][1] = chart.dataset_ref[1]
                  \/ available_refs[i] = chart.dataset_ref
    IN  [series |-> SelectSeq(sp.series, kpiOk),
         charts |-> SelectSeq(sp.charts, chartOk)]

\* _ensure_two_charts(spec, payload)
ensure_two_charts(sp, p) ==
    LET graphs == SelectSeq(sp.charts, LAMBDA c : c.type # "table")
        chart_types == { graphs[i].type : i \in 1..Len(graphs) }
        has_line == "line_chart" \in chart_types \/ "area_chart" \in chart_types
        has_bar == "bar_chart" \in chart_types
    IN  IF Cardinality(chart_types) >= 2 /\ Len(graphs) >= 2 THEN sp
        ELSE [sp EXCEPT !.charts =
                (IF ~has_line /\ p.time_series # <<>>
                 THEN <<ChartConfig("area_chart", <<"ts", p.time_series[1]>>)>>
                 ELSE <<>>)
                \o @ \o
                (IF ~has_bar /\ p.top_items # <<>>
                 THEN <<ChartConfig("bar_chart", <<"top", p.top_items[1]>>)>>
                 ELSE <<>>)]

\* _generate_quick_conclusion(question, payload): which sentence it returns
generate_quick_conclusion(p) ==
    IF p.kpis.present /\ "total_sales" \in p.kpis.fields /\ ~p.kpis.zero
    THEN "Ventas totales"
    ELSE IF p.kpis.present /\ "total_interactions" \in p.kpis.fields
    THEN "El agente AI proceso"
    ELSE IF p.kpis.present /\ "total_queries" \in p.kpis.fields
    THEN "Se registraron"
    ELSE "Datos procesados correctamente"

\* conclusions generate_narrative can hand back: none, or the model's text
NarrativeConclusions == {"", "llm conclusion"}

\* PresentationAgent.run(question, payload) when generate_narrative returned
\* the conclusion c
run(p, c) ==
    LET built == build_spec_heuristic(p)
        valid == validate_refs(built, p.available_refs)
        two   == ensure_two_charts(valid, p)
    IN  [series |-> two.series, charts |-> two.charts,
         conclusion |-> IF c # "" THEN c ELSE generate_quick_conclusion(p)]

\* no DashboardSpec yet
NoSpec == [series |-> <<>>, charts |-> <<>>, conclusion |-> None]

\* no graph run and no chat stream
GraphIdle ==
    /\ gvariant = None
    /\ gentry = None
    /\ gnode = "off"
    /\ gst = None
    /\ gsteps = 0
    /\ glimit = 0
    /\ gevents = <<>>
    /\ graised = None
    /\ last_node = None
    /\ cpc = "off"
    /\ sse = <<>>
    /\ cidx = 0
    /\ conversation_id = None

MemoryIdle ==
    /\ chat_memories = <<>>
    /\ chat_messages = <<>>
    /\ now = 0

ParamsIdle ==
    /\ today = 0
    /\ last_build = None

RouterIdle == routing = None /\ use_llm_router = FALSE

CacheIdle ==
    /\ node_caches = <<>>
    /\ node_locks = <<>>
    /\ query_cache = {}
    /\ workers = <<>>
    /\ cache_clock = 0
    /\ inv_pc = "off"

RepeatIdle == rep_clock = 0 /\ rep_log = <<>>

RetryIdle ==
    /\ rl_caller = None
    /\ rl_cfg = None
    /\ rl_pc = "off"
    /\ rl_errors = <<>>
    /\ rl_waits = <<>>

LRUIdle ==
    /\ lru_cache = <<>>
    /\ lru_clock = 0
    /\ lru_threads = <<>>
    /\ lru_recency = <<>>
    /\ lru_last = None

RequestsIdle ==
    /\ rq_registry = <<>>
    /\ rq_heap = <<>>
    /\ rq_reqs = <<>>
    /\ rq_running = None

\* every component but the pipeline, the graphs and the chat stream is idle
OthersIdle ==
    /\ ParamsIdle /\ RouterIdle /\ CacheIdle /\ RepeatIdle
    /\ RetryIdle /\ LRUIdle /\ RequestsIdle

InitPipe ==
    /\ question \in Questions
    /\ use_llm \in BOOLEAN
    /\ ppc = "start"
    /\ plan = <<>>
    /\ cursor = 0
    /\ pass = 0
    /\ payload = EmptyPayload
    /\ payload_previous = EmptyPayload
    /\ call = NoCall
    /\ storeLog = {}
    /\ spec = NoSpec
    /\ GraphIdle
    /\ MemoryIdle
    /\ OthersIdle

\* DataAgent.run up to the plan: extract_comparison_dates, then decide_queries
DataAgentDecide ==
    /\ ppc = "start"
    /\ IF extract_date_range_raises(question)
       THEN /\ ppc' = "failed"
            /\ UNCHANGED <<plan, cursor, pass>>
       ELSE \E llm \in LLMOutcomes :
            /\ plan' = decide_queries(question, use_llm, llm)
            /\ cursor' = 1
            /\ pass' = 1
            /\ ppc' = "executing"
    /\ UNCHANGED <<question, use_llm, payload, payload_previous, call, storeLog, spec>>
    /\ UNCHANGED nonPipeVars

\* one iteration of execute_plan's loop; after the last one DataAgent.run
\* either starts the previous period of a comparison or returns the payload
ExecutePlanStep ==
    /\ ppc = "executing"
    /\ cursor \in 1..Len(plan)
    /\ \E db \in DbOutcomes(plan[cursor]) :
        LET r    == execute_safe_query(plan[cursor], db)
            cur  == IF pass = 1 THEN FoldResult(payload, r) ELSE payload
            prev == IF pass = 2 THEN FoldResult(payload_previous, r)
                    ELSE payload_previous
            last == cursor = Len(plan)
        IN  /\ call' = r
            /\ storeLog' = IF r.store THEN storeLog \cup {r.query_id} ELSE storeLog
            /\ payload_previous' = prev
            /\ IF ~last
               THEN /\ cursor' = cursor + 1
                    /\ payload' = cur
                    /\ UNCHANGED <<pass, ppc>>
               ELSE IF pass = 1 /\ is_comparison(question)
               THEN /\ cursor' = 1
                    /\ pass' = 2
                    /\ payload' = cur
                    /\ UNCHANGED ppc
               ELSE /\ cursor' = cursor + 1
                    /\ payload' = IF is_comparison(question)
                                  THEN WithComparison(cur, prev.kpis) ELSE cur
                    /\ ppc' = "executed"
                    /\ UNCHANGED pass
    /\ UNCHANGED <<question, use_llm, plan, spec>>
    /\ UNCHANGED nonPipeVars

\* PresentationAgent.run on the payload DataAgent.run returned
PresentationRun ==
    /\ ppc = "executed"
    /\ \E c \in NarrativeConclusions : spec' = run(payload, c)
    /\ ppc' = "composed"
    /\ UNCHANGED <<question, use_llm, plan, cursor, pass, payload, payload_previous,
                   call, storeLog>>
    /\ UNCHANGED nonPipeVars

Next == DataAgentDecide \/ ExecutePlanStep \/ PresentationRun

Spec == InitPipe /\ [][Next]_vars

-----------------------------------------------------------------------------
(* Properties of the planner / executor / composer pipeline.               *)

\* C1: no query reaches the store unless its id is an allowlist key, and a
\* call of execute_safe_query with an id outside the allowlist fails before
\* any store access.
C1_StoreOnlyAllowlisted ==
    /\ \A id \in storeLog : validate_query_id(id)
    /\ (call.query_id # None /\ ~validate_query_id(call.query_id))
          => (call.raised # "" /\ ~call.store)

\* a plan with a foreign id was run: the foreign id was refused after another
\* id of the same plan had reached the store
C1_Witness ==
    /\ call.query_id \in ForeignIds
    /\ call.raised # ""
    /\ ~call.store
    /\ storeLog # {}

\* C2: every id of every plan decide_queries returns is an allowlist key.
C2_PlanIdsAllowlisted ==
    \A i \in 1..Len(plan) : plan[i] \in QUERY_ALLOWLIST

\* C3: every plan decide_queries returns has at most three ids.
C3_PlanAtMostThree == Len(plan) <= 3

\* C4: every value_ref and dataset_ref of the DashboardSpec returned by
\* PresentationAgent.run is in payload.available_refs.
C4_SpecRefsAvailable ==
    ppc = "composed" =>
        /\ \A i \in 1..Len(spec.series) :
              InSeq(spec.series[i].value_ref, payload.available_refs)
        /\ \A i \in 1..Len(spec.charts) :
              InSeq(spec.charts[i].dataset_ref, payload.available_refs)

\* the refs of the datasets a payload holds: a KPIData field, a series, a
\* ranking, a table, the comparison
DatasetRefs(p) ==
    { <<"kpi", k>> : k \in (IF p.kpis.present THEN p.kpis.fields ELSE {}) }
    \cup { <<"ts", p.time_series[i]>> : i \in 1..Len(p.time_series) }
    \cup { <<"top", p.top_items[i]>> : i \in 1..Len(p.top_items) }
    \cup { <<"table", p.tables[i].name>> : i \in 1..Len(p.tables) }
    \cup (IF p.comparison.present THEN { <<"comparison">> } ELSE {})

\* C15: after execute_plan and the comparison step of DataAgent.run, a ref is
\* in available_refs if and only if the payload holds the dataset it denotes,
\* whatever queries succeeded, failed or came back empty; the same holds for
\* the payload of the previous period and after every query of the plan.
C15_RefsIffDatasets ==
    /\ { payload.available_refs[i] : i \in 1..Len(payload.available_refs) }
          = DatasetRefs(payload)
    /\ { payload_previous.available_refs[i] :
            i \in 1..Len(payload_previous.available_refs) }
          = DatasetRefs(payload_previous)

\* a comparison was executed in which the KPIs of the current period were
\* found, one query failed and another came back empty (it left its meta and
\* no dataset)
C15_Witness ==
    /\ ppc = "executed"
    /\ payload.comparison.present
    /\ payload.kpis.present
    /\ Len(payload.datasets_meta) < Len(plan)
    /\ Len(payload.datasets_meta) >
          1 + Len(payload.time_series) + Len(payload.top_items) + Len(payload.tables)

\* C16: every delta_ref set on a KPI card of the DashboardSpec returned by
\* PresentationAgent.run is in payload.available_refs.
C16_DeltaRefsAvailable ==
    ppc = "composed" =>
        \A i \in 1..Len(spec.series) :
            spec.series[i].delta_ref # NoRef
                => InSeq(spec.series[i].delta_ref, payload.available_refs)
-----------------------------------------------------------------------------
(* Conversation history (app/memory/chat_memory.py).                        *)

\* largest reading of the clock
MaxClock == 2

\* most messages appended to one ChatMemory
MaxTurns == 2

\* thread ids: a conversation_id sent by the client, and the thread the
\* endpoint derives from the trace id of a request without one
ThreadIds == {"conv-1", "thread-t1"}

Roles == {"user", "assistant"}

\* ChatMessage(role=..., content=..., metadata=..., created_at=datetime.utcnow());
\* of the metadata only the trace id is kept
ChatMessage(role, content, trace_id, created_at) ==
    [role |-> role, content |-> content, trace_id |-> trace_id,
     created_at |-> created_at]

\* the row add_message_sync hands to insert: it has no created_at
ChatMessagesRow(thread_id, role, content, trace_id) ==
    [thread_id |-> thread_id, role |-> role, content |-> content,
     trace_id |-> trace_id]

\* what a call of SupabaseMemoryClient.insert can do: the row is stored, the
\* client is not configured, or the post fails (status >= 400 or an exception)
InsertOutcomes == {"stored", "unavailable", "failed"}

\* SupabaseMemoryClient.insert(table, data): only a stored row changes the table
insert(table, data, outcome) ==
    IF outcome = "stored" THEN Append(table, data) ELSE table

\* a thread get_chat_memory was never called for
NoMemory == [created |-> FALSE, thread_id |-> None, messages |-> <<>>]

\* ChatMemory(thread_id, user_id)
NewChatMemory(thread_id) == [created |-> TRUE, thread_id |-> thread_id, messages |-> <<>>]

\* get_chat_memory(thread_id): the dict after the call
get_chat_memory(memories, thread_id) ==
    IF memories[thread_id].created THEN memories
    ELSE [memories EXCEPT ![thread_id] = NewChatMemory(thread_id)]

\* add_message_sync that leaves self._messages alone
add_message_sync_insert_only(memory, table, role, content, trace_id, t, outcome) ==
    [memory |-> memory,
     table  |-> insert(table,
                       ChatMessagesRow(memory.thread_id, role, content, trace_id),
                       outcome)]

\* ChatMemory.add_message_sync(role, content, metadata) called at clock reading
\* t: the memory and the chat_messages table after the call
add_message_sync(memory, table, role, content, trace_id, t, outcome) ==
    [memory |-> [memory EXCEPT !.messages =
                    Append(@, ChatMessage(role, content, trace_id, t))],
     table  |-> insert(table,
                       ChatMessagesRow(memory.thread_id, role, content, trace_id),
                       outcome)]

\* ChatMemory.clear()
clear(memory) == [memory EXCEPT !.messages = <<>>]

\* no thread has a ChatMemory yet
NoMemories == [t \in ThreadIds |-> NoMemory]

-----------------------------------------------------------------------------
(* Orchestrator graphs: Router-as-CEO (app/graphs/insight_graph.py) and    *)
(* Supervisor (app/graphs/insight_graph_v2.py).                            *)

\* parameters create_initial_state declares
CreateInitialStateParams == {"question", "date_from", "date_to", "filters", "trace_id"}

\* keyword arguments of the two create_initial_state calls of insight_graph.py
RunEntryKwargs ==
    {"question", "date_from", "date_to", "filters", "trace_id", "chat_context"}

NoDecision == [response_type |-> None, needs_sql |-> FALSE, needs_dashboard |-> FALSE,
               direct_response |-> FALSE]

\* the state dict create_initial_state returns and the initial_state literal
\* of insight_graph_v2.py, reduced to the fields the nodes read and write
InitialState ==
    [routing_decision |-> NoDecision, data_payload |-> FALSE, dashboard_spec |-> None,
     direct_response |-> FALSE, retry_count |-> 0, max_retries |-> 3,
     last_error |-> FALSE, error |-> None, agent_steps |-> <<>>]

\* create_initial_state(**kwargs): a TypeError for an undeclared keyword
create_initial_state(kwargs) ==
    IF kwargs \subseteq CreateInitialStateParams
    THEN [raised |-> "", state |-> InitialState]
    ELSE [raised |-> "TypeError", state |-> InitialState]

\* "recursion_limit" of run_insight_graph_v2 of insight_graph.py
RecursionLimit == 15

\* limit of a run whose config has no "recursion_limit" (langgraph's default)
DefaultRecursionLimit == 25

\* the recursion limit each entry point runs the graph under
EntryRecursionLimit(variant, entry) ==
    IF variant = "ceo" /\ entry = "invoke" THEN RecursionLimit
    ELSE DefaultRecursionLimit

\* RoutingDecision values IntentRouter.route builds; direct_response tells
\* whether the text is non-empty
Conversational(text) ==
    [response_type |-> "conversational", needs_sql |-> FALSE,
     needs_dashboard |-> FALSE, direct_response |-> text]

Clarification ==
    [response_type |-> "clarification", needs_sql |-> FALSE,
     needs_dashboard |-> FALSE, direct_response |-> TRUE]

DataOnly ==
    [response_type |-> "data_only", needs_sql |-> TRUE, needs_dashboard |-> FALSE,
     direct_response |-> FALSE]

Dashboard ==
    [response_type |-> "dashboard", needs_sql |-> TRUE, needs_dashboard |-> TRUE,
     direct_response |-> FALSE]

\* what router.route(question) can do: return a decision or raise
RouteOutcomes ==
    { [raised |-> FALSE, decision |-> d] :
        d \in {Conversational(TRUE), Conversational(FALSE), Clarification,
               DataOnly, Dashboard} }
    \cup { [raised |-> TRUE, decision |-> NoDecision] }

Command(goto, update) == [goto |-> goto, state |-> update]

\* an update that carries no step record
WithStep_none(st, node) == st

WithStep(st, node) == [st EXCEPT !.agent_steps = Append(@, node)]

\* a retry test that never refuses
CanRetry_always(st) == TRUE

\* retry_count < max_retries of both data_agent_node functions
CanRetry(st) == st.retry_count < st.max_retries

\* ---- Router-as-CEO nodes ----

router_node(st, route) ==
    LET decision == IF route.raised THEN Dashboard ELSE route.decision
        next == [WithStep(st, "router") EXCEPT !.routing_decision = decision]
    IN  IF ~route.raised /\ decision.response_type = "conversational"
        THEN Command("handle_direct_response", next)
        ELSE IF ~route.raised /\ decision.response_type = "clarification"
        THEN Command("clarification_agent", next)
        ELSE Command("data_agent", next)

\* agent_raised: DataAgent.run (or get_data_agent) raised
data_agent_node(st, agent_raised) ==
    IF ~agent_raised
    THEN LET needs_dashboard ==
                 IF st.routing_decision = NoDecision THEN TRUE
                 ELSE st.routing_decision.needs_dashboard
             next == [WithStep(st, "data_agent") EXCEPT !.data_payload = TRUE,
                                                         !.last_error = FALSE]
         IN  Command(IF needs_dashboard THEN "presentation" ELSE "END", next)
    ELSE IF CanRetry(st)
    THEN Command("reflection",
                 [WithStep(st, "data_agent") EXCEPT !.last_error = TRUE,
                                                     !.retry_count = @ + 1])
    ELSE Command("END", [WithStep(st, "data_agent") EXCEPT !.error = "Max retries"])

\* a reflection node that counts the retry itself
reflection_node_bumps(st) ==
    Command("data_agent", [WithStep(st, "reflection") EXCEPT !.retry_count = @ + 1])

reflection_node(st) == Command("data_agent", WithStep(st, "reflection"))

presentation_node(st, agent_raised) ==
    IF st.error # None \/ ~st.data_payload
    THEN Command("END", WithStep(st, "presentation"))
    ELSE IF ~agent_raised
    THEN Command("END", [WithStep(st, "presentation") EXCEPT
                            !.dashboard_spec = "dashboard"])
    ELSE Command("END", [WithStep(st, "presentation") EXCEPT
                            !.error = "Presentation error"])

direct_response_node(st) ==
    IF st.routing_decision # NoDecision /\ st.routing_decision.direct_response
    THEN Command("END", [WithStep(st, "direct_response") EXCEPT
                            !.direct_response = TRUE,
                            !.dashboard_spec = "direct"])
    ELSE Command("END", WithStep(st, "direct_response"))

\* what the structured model call of ClarificationAgent.analyze can do:
\* ask for a clarification, find the intent clear, or fail
ClarificationLLMOutcomes == {"needs_clarification", "clear", "llm_failed"}

\* ClarificationAgent.analyze(question, detected_ambiguity): the model's
\* analysis, or on a failed call the fallback analysis with
\* needs_clarification=False and inferred_intent "dashboard de datos"
analyze(llm) ==
    IF llm = "needs_clarification" THEN "needs_clarification" ELSE "inferred"

\* what the try block of clarification_agent_node can see: an analysis, or
\* an exception of get_clarification_agent
AnalyzeOutcomes == { analyze(llm) : llm \in ClarificationLLMOutcomes } \cup {"raised"}

clarification_agent_node(st, analysis) ==
    CASE analysis = "inferred" ->
           Command("data_agent",
                   [WithStep(st, "clarification_agent") EXCEPT
                       !.routing_decision =
                           IF @ = NoDecision THEN @ ELSE Dashboard])
      [] analysis = "needs_clarification" ->
           Command("END", [WithStep(st, "clarification_agent") EXCEPT
                              !.direct_response = TRUE,
                              !.dashboard_spec = "clarification"])
      [] OTHER ->
           Command("data_agent", WithStep(st, "clarification_agent"))

\* ---- Supervisor nodes ----

supervisor_node(st) ==
    LET decision == st.routing_decision
        next == WithStep(st, "supervisor")
    IN  IF decision = NoDecision THEN Command("router", next)
        ELSE IF decision.response_type \in {"conversational", "clarification"}
        THEN Command("direct_response", next)
        ELSE IF decision.needs_sql /\ ~st.data_payload
        THEN Command("data_agent", next)
        ELSE IF decision.needs_dashboard /\ st.dashboard_spec = None
        THEN Command("presentation", next)
        ELSE Command("END", next)

v2_router_node(st, route) ==
    Command("supervisor",
            [WithStep(st, "router") EXCEPT
                !.routing_decision = IF route.raised THEN Dashboard
                                     ELSE route.decision])

v2_data_agent_node(st, agent_raised) ==
    IF ~agent_raised
    THEN Command("supervisor",
                 [WithStep(st, "data_agent") EXCEPT !.data_payload = TRUE,
                                                     !.last_error = FALSE])
    ELSE IF CanRetry(st)
    THEN Command("reflection",
                 [WithStep(st, "data_agent") EXCEPT !.last_error = TRUE,
                                                     !.retry_count = @ + 1])
    ELSE Command("supervisor",
                 [WithStep(st, "data_agent") EXCEPT !.error = "Max retries"])

v2_reflection_node(st) == Command("data_agent", WithStep(st, "reflection"))

v2_presentation_node(st, agent_raised) ==
    IF st.error # None \/ ~st.data_payload
    THEN Command("supervisor", WithStep(st, "presentation"))
    ELSE IF ~agent_raised
    THEN Command("supervisor", [WithStep(st, "presentation") EXCEPT
                                   !.dashboard_spec = "dashboard"])
    ELSE Command("supervisor", [WithStep(st, "presentation") EXCEPT
                                   !.error = "Presentation error"])

v2_direct_response_node(st) ==
    IF st.routing_decision # NoDecision /\ st.routing_decision.direct_response
    THEN Command("supervisor", [WithStep(st, "direct_response") EXCEPT
                                   !.direct_response = TRUE,
                                   !.dashboard_spec = "direct"])
    ELSE Command("supervisor", WithStep(st, "direct_response"))

\* _build_result(final_state)
build_result(st) ==
    [success |-> st.error = None, dashboard_spec |-> st.dashboard_spec,
     data_payload |-> st.data_payload]

\* events of the streaming generators (run_insight_graph_v2_streaming)
StartEvent == [event |-> "start", step |-> "init", result |-> None]

ProgressEvent(node_name) == [event |-> "progress", step |-> node_name, result |-> None]

ErrorEvent == [event |-> "error", step |-> "error", result |-> None]

CompleteEvent(st) == [event |-> "complete", step |-> "unknown", result |-> build_result(st)]

\* ---- /v1/chat/stream (generate_ai_sdk_stream) ----

Part(type, detail) == [type |-> type, detail |-> detail]

\* parts yielded before the date extraction
OpeningParts == <<Part("start", ""), Part("data-trace", ""), Part("text-start", "")>>

\* parts yielded for one event of the graph generator
EventParts(ev) ==
    <<Part("data-agent_step", ev.step)>>
    \o (IF ev.event = "complete"
        THEN (IF ev.result.dashboard_spec # None
              THEN <<Part("data-dashboard", ev.result.dashboard_spec),
                     Part("text-delta", "conclusion")>>
              ELSE <<>>)
             \o (IF ev.result.data_payload
                 THEN <<Part("data-payload", ""), Part("data-meta", "")>> ELSE <<>>)
        ELSE <<>>)
    \o (IF ev.event = "error"
        THEN <<Part("text-delta", "error"), Part("data-agent_step", "error")>>
        ELSE <<>>)

\* the closing parts with finish ahead of text-end
ClosingParts_finish_first ==
    <<Part("finish", "complete"), Part("text-end", ""), Part("[DONE]", "")>>

\* parts yielded after the graph generator is exhausted
ClosingParts ==
    <<Part("text-end", ""), Part("finish", "complete"), Part("[DONE]", "")>>

\* trace id of the request, and of an earlier request of the same client
TraceId == "t1"

EarlierTraceId == "t0"

\* the conclusion text of a dashboard spec
Conclusion == <<"conclusion">>

\* thread_id = conversation_id or f"thread-{trace_id}"
ThreadOf(conv, trace_id) == IF conv # None THEN conv ELSE "thread-t1"

\* the memories after an earlier request in conversation conv-1 was answered
EarlierConversation ==
    [NoMemories EXCEPT !["conv-1"] =
        [NewChatMemory("conv-1") EXCEPT !.messages =
            << ChatMessage("user", <<"h","o","l","a">>, EarlierTraceId, 0),
               ChatMessage("assistant", Conclusion, EarlierTraceId, 0) >>]]

\* number of the part of EventParts(ev) after whose yield the assistant
\* message is saved; 0 when the event saves none
SavePoint(ev) ==
    IF ev.event = "complete" /\ ev.result.dashboard_spec # None THEN 3 ELSE 0

\* questions put to the graphs: with and without a date phrase that makes
\* extract_date_range raise
GraphQuestions ==
    { <<"v","e","n","t","a","s">>,
      <<"v","e","n","t","a","s"," ","u","l","t","i","m","o","s"," ",
        "9","9","9","9","9","9","9"," ","d","i","a","s">> }

NodeNames == {"router", "supervisor", "data_agent", "reflection", "presentation",
              "direct_response", "handle_direct_response", "clarification_agent"}

Streaming == gentry \in {"stream", "chat"}

PipeIdle ==
    /\ use_llm = FALSE
    /\ ppc = "off"
    /\ plan = <<>>
    /\ cursor = 0
    /\ pass = 0
    /\ payload = EmptyPayload
    /\ payload_previous = EmptyPayload
    /\ call = NoCall
    /\ storeLog = {}
    /\ spec = NoSpec

InitGraph ==
    /\ question \in GraphQuestions
    /\ PipeIdle
    /\ gvariant \in {"ceo", "supervisor"}
    /\ gentry \in {"invoke", "stream", "chat", "graph"}
    /\ gnode = "idle"
    /\ gst = InitialState
    /\ gsteps = 0
    /\ glimit = EntryRecursionLimit(gvariant, gentry)
    /\ gevents = <<>>
    /\ graised = None
    /\ last_node = None
    /\ cpc = IF gentry = "chat" THEN "request" ELSE "off"
    /\ sse = <<>>
    /\ cidx = 0
    /\ conversation_id \in (IF gentry = "chat" THEN {None, "conv-1"} ELSE {None})
    /\ chat_memories \in (IF gentry = "chat" THEN {NoMemories, EarlierConversation}
                          ELSE {NoMemories})
    /\ chat_messages = <<>>
    /\ now = 0
    /\ OthersIdle

\* chat_stream: the user message is saved, then the StreamingResponse over
\* generate_ai_sdk_stream is returned
ChatStream ==
    /\ gentry = "chat"
    /\ cpc = "request"
    /\ \E t \in {now, now + 1}, outcome \in InsertOutcomes :
          LET thread_id == ThreadOf(conversation_id, TraceId)
              memories  == get_chat_memory(chat_memories, thread_id)
              saved     == add_message_sync(memories[thread_id], chat_messages,
                                            "user", question, TraceId, t, outcome)
          IN  /\ chat_memories' = [memories EXCEPT ![thread_id] = saved.memory]
              /\ chat_messages' = saved.table
              /\ now' = t
    /\ cpc' = "init"
    /\ UNCHANGED <<outsideGraph, graphVars, sse, cidx>>

\* generate_ai_sdk_stream up to the call of the graph generator
ChatOpen ==
    /\ gentry = "chat"
    /\ cpc = "init"
    /\ IF extract_date_range_raises(question)
       THEN /\ sse' = OpeningParts
            /\ cpc' = "aborted"
       ELSE /\ sse' = Append(OpeningParts, Part("data-agent_step", "date_extraction"))
            /\ cpc' = "streaming"
    /\ UNCHANGED <<outsideGraph, memVars, gvariant, gentry, gnode, gst, gsteps, glimit, gevents,
                   graised, last_node, cidx>>

\* the entry point up to the first node: the initial state, the start event
StartRun ==
    /\ gnode = "idle"
    /\ gentry = "chat" => cpc = "streaming"
    /\ LET init == IF gvariant = "supervisor" THEN [raised |-> "", state |-> InitialState]
                   ELSE IF gentry = "graph"
                   THEN create_initial_state(CreateInitialStateParams)
                   ELSE create_initial_state(RunEntryKwargs)
       IN  IF init.raised # ""
           THEN /\ graised' = init.raised
                /\ gnode' = "raised"
                /\ cpc' = IF gentry = "chat" THEN "aborted" ELSE cpc
                /\ UNCHANGED <<gst, gevents>>
           ELSE /\ gst' = init.state
                /\ gnode' = IF gvariant = "ceo" THEN "router" ELSE "supervisor"
                /\ gevents' = IF Streaming THEN <<StartEvent>> ELSE <<>>
                /\ UNCHANGED <<graised, cpc>>
    /\ UNCHANGED <<outsideGraph, memVars, gvariant, gentry, gsteps, glimit, last_node, sse, cidx>>

\* one superstep: the node ran and returned cmd; a streaming entry yields a
\* progress event when the node differs from the last one reported
Advance(node_name, cmd) ==
    /\ cpc # "cancelled"
    /\ gsteps < glimit
    /\ gst' = cmd.state
    /\ gnode' = cmd.goto
    /\ gsteps' = gsteps + 1
    /\ IF Streaming
       THEN /\ gevents' = IF node_name # last_node
                          THEN Append(gevents, ProgressEvent(node_name)) ELSE gevents
            /\ last_node' = node_name
       ELSE UNCHANGED <<gevents, last_node>>
    /\ UNCHANGED <<outsideGraph, memVars, gvariant, gentry, glimit, graised, cpc, sse, cidx>>

\* DataAgent.run raises for a question whose date phrase overflows, and
\* get_data_agent or the agent can raise for any question
AgentRaises == IF extract_date_range_raises(question) THEN {TRUE} ELSE BOOLEAN

RouterNode ==
    /\ gvariant = "ceo" /\ gnode = "router"
    /\ \E route \in RouteOutcomes : Advance("router", router_node(gst, route))

DataAgentNode ==
    /\ gvariant = "ceo" /\ gnode = "data_agent"
    /\ \E r \in AgentRaises : Advance("data_agent", data_agent_node(gst, r))

ReflectionNode ==
    /\ gvariant = "ceo" /\ gnode = "reflection"
    /\ Advance("reflection", reflection_node(gst))

PresentationNode ==
    /\ gvariant = "ceo" /\ gnode = "presentation"
    /\ \E r \in BOOLEAN : Advance("presentation", presentation_node(gst, r))

DirectResponseNode ==
    /\ gvariant = "ceo" /\ gnode = "handle_direct_response"
    /\ Advance("handle_direct_response", direct_response_node(gst))

ClarificationAgentNode ==
    /\ gvariant = "ceo" /\ gnode = "clarification_agent"
    /\ \E a \in AnalyzeOutcomes :
          Advance("clarification_agent", clarification_agent_node(gst, a))

SupervisorNode ==
    /\ gvariant = "supervisor" /\ gnode = "supervisor"
    /\ Advance("supervisor", supervisor_node(gst))

V2RouterNode ==
    /\ gvariant = "supervisor" /\ gnode = "router"
    /\ \E route \in RouteOutcomes : Advance("router", v2_router_node(gst, route))

V2DataAgentNode ==
    /\ gvariant = "supervisor" /\ gnode = "data_agent"
    /\ \E r \in AgentRaises : Advance("data_agent", v2_data_agent_node(gst, r))

V2ReflectionNode ==
    /\ gvariant = "supervisor" /\ gnode = "reflection"
    /\ Advance("reflection", v2_reflection_node(gst))

V2PresentationNode ==
    /\ gvariant = "supervisor" /\ gnode = "presentation"
    /\ \E r \in BOOLEAN : Advance("presentation", v2_presentation_node(gst, r))

V2DirectResponseNode ==
    /\ gvariant = "supervisor" /\ gnode = "direct_response"
    /\ Advance("direct_response", v2_direct_response_node(gst))

\* the graph did not reach END within the recursion limit: invoke raises
\* GraphRecursionError, the streaming generators yield an error event and return
RecursionLimitHit ==
    /\ cpc # "cancelled"
    /\ gnode \in NodeNames
    /\ gsteps >= glimit
    /\ IF Streaming
       THEN /\ gevents' = Append(gevents, ErrorEvent)
            /\ gnode' = "returned"
            /\ UNCHANGED graised
       ELSE /\ graised' = "GraphRecursionError"
            /\ gnode' = "raised"
            /\ UNCHANGED gevents
    /\ UNCHANGED <<outsideGraph, memVars, gvariant, gentry, gst, gsteps, glimit, last_node,
                   cpc, sse, cidx>>

\* the graph reached END: invoke returns the state, the streaming generators
\* yield the complete event
RunComplete ==
    /\ cpc # "cancelled"
    /\ gnode = "END"
    /\ gnode' = "returned"
    /\ gevents' = IF Streaming THEN Append(gevents, CompleteEvent(gst)) ELSE gevents
    /\ UNCHANGED <<outsideGraph, memVars, gvariant, gentry, gst, gsteps, glimit, graised,
                   last_node, cpc, sse, cidx>>

\* chat_memory.add_message_sync("assistant", conclusion, {...}) of
\* generate_ai_sdk_stream when wanted, nothing otherwise
SaveAssistant(wanted) ==
    IF wanted
    THEN \E t \in {now, now + 1}, outcome \in InsertOutcomes :
            LET thread_id == ThreadOf(conversation_id, TraceId)
                saved == add_message_sync(chat_memories[thread_id], chat_messages,
                                          "assistant", Conclusion, TraceId, t, outcome)
            IN  /\ chat_memories' = [chat_memories EXCEPT ![thread_id] = saved.memory]
                /\ chat_messages' = saved.table
                /\ now' = t
    ELSE UNCHANGED memVars

\* one iteration of the "async for event_str in stream_generator" loop
ChatConsume ==
    /\ cpc = "streaming"
    /\ cidx < Len(gevents)
    /\ sse' = sse \o EventParts(gevents[cidx + 1])
    /\ cidx' = cidx + 1
    /\ SaveAssistant(SavePoint(gevents[cidx + 1]) > 0)
    /\ UNCHANGED <<outsideGraph, graphVars, cpc>>

\* the client disconnects while the generator is suspended in a yield: the
\* generator is never resumed, so nothing after that yield runs
ChatDisconnect ==
    /\ cpc \in {"init", "streaming"}
    /\ \/ /\ cpc = "init"
          /\ \E k \in 1..Len(OpeningParts) : sse' = SubSeq(OpeningParts, 1, k)
          /\ UNCHANGED <<cidx, memVars>>
       \/ /\ cpc = "streaming"
          /\ cidx < Len(gevents)
          /\ LET ev    == gevents[cidx + 1]
                 parts == EventParts(ev)
             IN  \E k \in 1..Len(parts) :
                    /\ sse' = sse \o SubSeq(parts, 1, k)
                    /\ SaveAssistant(SavePoint(ev) > 0 /\ k > SavePoint(ev))
          /\ cidx' = cidx + 1
       \/ /\ cpc = "streaming"
          /\ gnode = "returned"
          /\ cidx = Len(gevents)
          /\ \E k \in 1..(Len(ClosingParts) - 1) :
                sse' = sse \o SubSeq(ClosingParts, 1, k)
          /\ UNCHANGED <<cidx, memVars>>
    /\ cpc' = "cancelled"
    /\ UNCHANGED <<outsideGraph, graphVars>>

\* the generator is exhausted: text-end, finish, [DONE]
ChatClose ==
    /\ cpc = "streaming"
    /\ gnode = "returned"
    /\ cidx = Len(gevents)
    /\ sse' = sse \o ClosingParts
    /\ cpc' = "done"
    /\ UNCHANGED <<outsideGraph, memVars, gvariant, gentry, gnode, gst, gsteps, glimit, gevents,
                   graised, last_node, cidx>>

NextGraph ==
    \/ ChatOpen \/ StartRun
    \/ RouterNode \/ DataAgentNode \/ ReflectionNode \/ PresentationNode
    \/ DirectResponseNode \/ ClarificationAgentNode
    \/ SupervisorNode \/ V2RouterNode \/ V2DataAgentNode \/ V2ReflectionNode
    \/ V2PresentationNode \/ V2DirectResponseNode
    \/ RecursionLimitHit \/ RunComplete
    \/ ChatStream \/ ChatConsume \/ ChatDisconnect \/ ChatClose

SpecGraph == InitGraph /\ [][NextGraph]_vars

\* the event loop keeps running whatever is enabled
SpecGraphFair == SpecGraph /\ WF_vars(NextGraph)
-----------------------------------------------------------------------------
(* Properties of the chat stream and of the graphs.                        *)

\* positions of the parts of one type in the response
Idx(type) == { i \in 1..Len(sse) : sse[i].type = type }

\* the run ended in an error terminal state: the graph raised, or its final
\* state has error set
ErrorTerminal ==
    \/ graised # None
    \/ \E i \in 1..Len(gevents) : gevents[i].event = "error"
    \/ gnode \in {"returned", "END"} /\ gst.error # None

\* C5: order of the parts of a /chat/stream response: one start, and it is
\* first; text-start before every text-delta; no text-delta after text-end;
\* finish only after text-end; nothing after [DONE]; and a response that ran
\* to its end has text-end after every text-delta, then finish, then [DONE]
\* as its last part.
C5_StreamOrder ==
    /\ sse # <<>> => (sse[1].type = "start" /\ Cardinality(Idx("start")) = 1)
    /\ \A i \in Idx("text-delta") : \E j \in Idx("text-start") : j < i
    /\ \A i \in Idx("text-delta") : \A j \in Idx("text-end") : i < j
    /\ \A i \in Idx("finish") : \E j \in Idx("text-end") : j < i
    /\ \A i \in Idx("[DONE]") : i = Len(sse)
    /\ cpc = "done" =>
          /\ Cardinality(Idx("text-end")) = 1
          /\ Cardinality(Idx("finish")) = 1
          /\ sse[Len(sse)].type = "[DONE]"

\* a response that ran to its end and carried a conclusion
C5_Witness ==
    /\ cpc = "done"
    /\ \E i \in Idx("text-delta") : sse[i].detail = "conclusion"

\* the response is closed: text-end, finish, [DONE] are its last three parts
Closed ==
    /\ Len(sse) >= 3
    /\ sse[Len(sse) - 2].type = "text-end"
    /\ sse[Len(sse) - 1].type = "finish"
    /\ sse[Len(sse)].type = "[DONE]"

\* C6: every response that has emitted start eventually emits text-end, then
\* finish, then [DONE], whatever the pipeline does.
C6_EventuallyClosed == [](Idx("start") # {} => <>Closed)

\* C7: when the run ends in an error terminal state, the finish part carries
\* finishReason = error.
C7_ErrorFinishReason ==
    ErrorTerminal => \A i \in Idx("finish") : sse[i].detail = "error"

\* C8: when the run ends in an error terminal state, the response has a
\* text-delta with the error message, after text-start and before text-end.
C8_ErrorTextDelta ==
    (cpc \in {"done", "aborted"} /\ ErrorTerminal) =>
        \E i \in Idx("text-delta") :
            /\ sse[i].detail = "error"
            /\ \E j \in Idx("text-start") : j < i
            /\ \E j \in Idx("text-end") : i < j

\* C9: retry_count never exceeds 3, in either graph.
C9_RetryBound == gst.retry_count <= 3

\* the data agent failed four times: three retries were spent and the run
\* ended with the max-retries error
C9_Witness ==
    /\ gst.retry_count = 3
    /\ gst.error = "Max retries"
    /\ gnode = "returned"

\* C10: no run executes more node steps than the recursion limit of 15.
C10_StepsWithinLimit == gsteps <= RecursionLimit

\* positions, in the ChatMemory of the request's thread, of the turns of one
\* role saved for the request's trace
Turns(role) ==
    LET messages == chat_memories[ThreadOf(conversation_id, TraceId)].messages
    IN  { i \in 1..Len(messages) :
            messages[i].role = role /\ messages[i].trace_id = TraceId }

\* rows of the chat_messages table of one role stored for the request's trace
Rows(role) ==
    { i \in 1..Len(chat_messages) :
        chat_messages[i].role = role /\ chat_messages[i].trace_id = TraceId }

\* C11: a request that was not cancelled and completed successfully leaves
\* exactly one user turn and exactly one assistant turn for its trace in the
\* conversation store.
C11_OneUserOneAssistant ==
    (cpc = "done" /\ ~ErrorTerminal) =>
        /\ Cardinality(Turns("user")) = 1
        /\ Cardinality(Turns("assistant")) = 1

\* C12: whenever a part of the response of a /chat/stream request has been
\* emitted, the user turn of the request is already in the conversation
\* store, once, and no insert of it into chat_messages is still to come.
C12_UserTurnBeforeStream ==
    /\ sse # <<>> => Cardinality(Turns("user")) = 1
    /\ cpc \notin {"off", "request"} => Cardinality(Turns("user")) = 1
    /\ Cardinality(Rows("user")) <= 1
    /\ Rows("user") # {} => Cardinality(Turns("user")) = 1

\* the first part of a response is out while the thread holds the turns of an
\* earlier request and the user turn of this one
C12_Witness ==
    /\ Len(sse) = 1
    /\ conversation_id = "conv-1"
    /\ Len(chat_memories["conv-1"].messages) = 3
    /\ Cardinality(Turns("user")) = 1

\* C13: an assistant turn is in the conversation store only once the Composer
\* has completed for the request, and a request that was cancelled by a client
\* disconnect or that failed has no assistant turn.
C13_AssistantOnlyAfterComposer ==
    /\ Turns("assistant") # {} => gst.dashboard_spec = "dashboard"
    /\ (cpc = "cancelled" \/ ErrorTerminal) => Turns("assistant") = {}

\* C21: in every response the kinds of parts follow the order of the protocol
\* list: no data-agent_step after data-dashboard, no data-dashboard after
\* data-payload, and no data-payload after a text-delta.
C21_EventKindOrder ==
    /\ \A i \in Idx("data-dashboard") : \A j \in Idx("data-agent_step") : j < i
    /\ \A i \in Idx("data-payload") : \A j \in Idx("data-dashboard") : j < i
    /\ \A i \in Idx("text-delta") : \A j \in Idx("data-payload") : j < i

\* a superstep of the node the graph stands at
NodeStep(node_name) == gnode = node_name /\ gsteps' = gsteps + 1

\* a superstep of the data agent node whose DataAgent.run raised: only the
\* except branch leaves last_error set (the first failure sets it, and a
\* failure without retries left follows three that did)
DataAgentFailed == NodeStep("data_agent") /\ gst'.last_error

\* C24: when the data agent node fails with retries remaining the next node
\* is reflection; when it fails with none remaining, error is set and the
\* graph goes to END (in the Supervisor graph: through the supervisor, which
\* then ends the run).
C24_FailureRouting ==
    [][/\ (DataAgentFailed /\ CanRetry(gst)) => gnode' = "reflection"
       /\ (DataAgentFailed /\ ~CanRetry(gst)) =>
             (gst'.error # None /\ gnode' \in {"END", "supervisor"})
       /\ (NodeStep("supervisor") /\ gst.error = "Max retries") => gnode' = "END"]_vars

\* C25 as stated: each execution of the reflection node adds one to
\* retry_count and is followed by the data agent node.
C25_ReflectionBumps ==
    [][NodeStep("reflection") =>
          (gst'.retry_count = gst.retry_count + 1 /\ gnode' = "data_agent")]_vars

\* C25: the data agent node adds one to retry_count when it fails with
\* retries remaining and hands over to reflection; the reflection node leaves
\* retry_count as it is and is followed by the data agent node.
C25_BumpThenReflection ==
    [][/\ NodeStep("reflection") =>
             (gst'.retry_count = gst.retry_count /\ gnode' = "data_agent")
       /\ (gnode # "reflection" /\ gnode' = "reflection") =>
             (gnode = "data_agent" /\ gst'.retry_count = gst.retry_count + 1)]_vars

\* the reflection node has run once and handed back to the data agent
C25_Witness ==
    /\ gnode = "data_agent"
    /\ gst.agent_steps # <<>>
    /\ gst.agent_steps[Len(gst.agent_steps)] = "reflection"
    /\ gst.retry_count = 1

\* the graph state the data agent node receives for a dashboard question
RoutedState == [InitialState EXCEPT !.routing_decision = Dashboard]

\* C26: if every query of a plan fails, so that no query adds anything to
\* the payload, the plan as a whole fails (DataAgent.run raises) and the data
\* agent node of the orchestrator hands over to reflection.
C26_AllFailedPlanFails ==
    (/\ ppc \in {"executed", "composed", "failed"}
     /\ plan # <<>>
     /\ payload.datasets_meta = <<>>
     /\ payload_previous.datasets_meta = <<>>)
        => /\ ppc = "failed"
           /\ data_agent_node(RoutedState, ppc = "failed").goto = "reflection"

\* one iteration of the loop of execute_plan
ExecutorStep == ppc = "executing" /\ (cursor' # cursor \/ pass' # pass)

\* C27: a query that fails does not stop the executor: it goes on to the
\* next id of the plan, returns only after the last id, never fails the run,
\* and every query that succeeds is recorded in the payload and stays there.
C27_FailedQueryDoesNotAbort ==
    [][ExecutorStep =>
          /\ call'.query_id = plan[cursor]
          /\ (call'.raised # "" /\ cursor < Len(plan)) =>
                (ppc' = "executing" /\ cursor' = cursor + 1 /\ pass' = pass)
          /\ ppc' # "failed"
          /\ ppc' = "executed" => cursor = Len(plan)
          /\ call'.raised = "" =>
                InSeq(plan[cursor], IF pass = 1 THEN payload'.datasets_meta
                                    ELSE payload_previous'.datasets_meta)
          /\ \A i \in 1..Len(payload.datasets_meta) :
                InSeq(payload.datasets_meta[i], payload'.datasets_meta)]_vars

\* a plan ran to its end although one of its queries failed, and a query
\* after the failed one is in the payload
C27_Witness ==
    /\ ppc = "executed"
    /\ \E i, j \in 1..Len(plan) :
          /\ i < j
          /\ ~InSeq(plan[i], payload.datasets_meta)
          /\ InSeq(plan[j], payload.datasets_meta)

\* C28: every failure inside a node of the Router-as-CEO graph becomes a
\* state update that sets last_error and appends one step record: stated for
\* the node the graph stands at, run with the call inside its try block
\* raising.
C28_FailuresSetLastError ==
    /\ (gvariant = "ceo" /\ gnode = "router") =>
          LET c == router_node(gst, [raised |-> TRUE, decision |-> NoDecision])
          IN  /\ c.state.last_error
              /\ Len(c.state.agent_steps) = Len(gst.agent_steps) + 1
    /\ (gvariant = "ceo" /\ gnode = "data_agent" /\ CanRetry(gst)) =>
          LET c == data_agent_node(gst, TRUE)
          IN  /\ c.state.last_error
              /\ Len(c.state.agent_steps) = Len(gst.agent_steps) + 1
    /\ (gvariant = "ceo" /\ gnode = "presentation" /\ gst.data_payload
            /\ gst.error = None) =>
          LET c == presentation_node(gst, TRUE)
          IN  /\ c.state.last_error
              /\ Len(c.state.agent_steps) = Len(gst.agent_steps) + 1

\* C29: every run of the Supervisor graph that is not cancelled reaches END,
\* and the supervisor does not route again to direct_response once it has
\* run, to data_agent once the retries are exhausted, or to presentation once
\* it has run without producing a dashboard.
C29_SupervisorTerminates ==
    /\ (gvariant = "supervisor" /\ gnode = "supervisor")
          ~> (gnode = "END" \/ cpc = "cancelled")
    /\ [][(gvariant = "supervisor" /\ NodeStep("supervisor")) =>
             /\ InSeq("direct_response", gst.agent_steps) => gnode' # "direct_response"
             /\ gst.error = "Max retries" => gnode' # "data_agent"
             /\ (InSeq("presentation", gst.agent_steps) /\ gst.dashboard_spec = None)
                   => gnode' # "presentation"]_vars

\* C30: a run whose data agent node succeeded for a data_only decision
\* reaches END with a dashboard spec.
C30_DataOnlyEndsWithSpec ==
    (/\ gnode = "END"
     /\ gst.routing_decision = DataOnly
     /\ gst.data_payload
     /\ gst.error = None)
        => gst.dashboard_spec # None

\* C31: whenever the payload carries a comparison with at least one defined
\* delta, the DashboardSpec the composer returns contains a ComparisonChart.
C31_ComparisonChartPresent ==
    (/\ ppc = "composed"
     /\ payload.comparison.present
     /\ payload.comparison.deltas # {})
        => \E i \in 1..Len(spec.charts) :
              spec.charts[i].class = "ComparisonChartConfig"

\* C32: the clarification node hands over to the data agent only when the
\* model found the intent clear; in every other case, a failed model call
\* included, it sets the clarification text and goes to END.
C32_ClarificationRouting ==
    (gvariant = "ceo" /\ gnode = "clarification_agent") =>
        \A llm \in ClarificationLLMOutcomes :
            LET c == clarification_agent_node(gst, analyze(llm))
            IN  IF llm = "clear" THEN c.goto = "data_agent"
                ELSE c.goto = "END" /\ c.state.direct_response

\* the "node" field of the step record a node writes
StepNodeName(node_name) ==
    IF node_name = "handle_direct_response" THEN "direct_response" ELSE node_name

\* C33: every node execution appends exactly one step record, named for the
\* node, to agent_steps and leaves the earlier records as they are; so the
\* list always holds one record per node executed, in execution order.
C33_OneStepPerNode ==
    /\ [](Len(gst.agent_steps) = gsteps)
    /\ [][gsteps' = gsteps + 1 =>
             gst'.agent_steps = Append(gst.agent_steps, StepNodeName(gnode))]_vars

\* a Router-as-CEO run reached END through five node executions
C33_Witness ==
    /\ gvariant = "ceo"
    /\ gnode = "END"
    /\ gsteps = 5
    /\ gst.agent_steps =
          <<"router", "data_agent", "reflection", "data_agent", "presentation">>

\* positions of the terminal events in the events the generator yielded
TerminalIdx == { i \in 1..Len(gevents) : gevents[i].event \in {"error", "complete"} }

\* at most one terminal event, error or complete, and nothing after it; a
\* start event only in the first position
TerminalLast ==
    /\ Cardinality(TerminalIdx) <= 1
    /\ \A i \in TerminalIdx : i = Len(gevents)
    /\ \A i \in 2..Len(gevents) : gevents[i].event # "start"

\* C40: the streaming generator of a graph emits its start event first and
\* ends with at most one terminal event, error or complete and never both,
\* and no progress event follows the terminal event.
C40_StartFirstOneTerminal ==
    (Streaming /\ gnode # "idle") =>
        /\ Len(gevents) >= 1
        /\ gevents[1].event = "start"
        /\ TerminalLast
-----------------------------------------------------------------------------
(* The conversation history driven directly: any caller, any thread.       *)

InitMemory ==
    /\ question = <<>>
    /\ PipeIdle
    /\ GraphIdle
    /\ chat_memories = NoMemories
    /\ chat_messages = <<>>
    /\ now = 0
    /\ OthersIdle

\* get_chat_memory(thread_id)
GetChatMemory ==
    /\ \E thread_id \in ThreadIds :
          chat_memories' = get_chat_memory(chat_memories, thread_id)
    /\ UNCHANGED <<outsideMemory, chat_messages, now>>

\* get_chat_memory(thread_id).add_message_sync(role, content, metadata)
AddMessage ==
    /\ \E thread_id \in ThreadIds, role \in Roles, outcome \in InsertOutcomes :
          LET memories == get_chat_memory(chat_memories, thread_id)
              saved    == add_message_sync(memories[thread_id], chat_messages, role,
                                           Conclusion, TraceId, now, outcome)
          IN  /\ Len(memories[thread_id].messages) < MaxTurns
              /\ Len(chat_messages) < MaxTurns
              /\ chat_memories' = [memories EXCEPT ![thread_id] = saved.memory]
              /\ chat_messages' = saved.table
    /\ UNCHANGED <<outsideMemory, now>>

\* ChatMemory.clear() of an existing memory
Clear ==
    /\ \E thread_id \in ThreadIds :
          /\ chat_memories[thread_id].created
          /\ chat_memories' = [chat_memories EXCEPT ![thread_id] = clear(@)]
    /\ UNCHANGED <<outsideMemory, chat_messages, now>>

\* time passes between two readings of the clock
Tick ==
    /\ now < MaxClock
    /\ now' = now + 1
    /\ UNCHANGED <<outsideMemory, chat_memories, chat_messages>>

NextMemory == GetChatMemory \/ AddMessage \/ Clear \/ Tick

SpecMemory == InitMemory /\ [][NextMemory]_vars

\* C14: appends are idempotent per (thread_id, role, created_at): no thread
\* holds two turns with the same role and the same created_at.
C14_AppendIdempotent ==
    \A thread_id \in ThreadIds :
        LET messages == chat_memories[thread_id].messages
        IN  \A i, j \in 1..Len(messages) :
                (messages[i].role = messages[j].role
                 /\ messages[i].created_at = messages[j].created_at) => i = j
-----------------------------------------------------------------------------
(* build_params (app/sql/allowlist.py). A date stands for itself as its    *)
(* ordinal; None is NoneParam.                                              *)

\* days that pass after the templates were loaded
MaxDays == 2

NoneParam == -1

\* a default thunk: "lambda: n", or "lambda: (date.today() + timedelta(n)).isoformat()"
Const(n) == [kind |-> "const", n |-> n]

Today(n) == [kind |-> "today", n |-> n]

\* default_fn() on a given day
CallThunk(thunk, day) == IF thunk.kind = "today" THEN day + thunk.n ELSE thunk.n

\* "default_params" of each template
default_params(query_id) ==
    CASE query_id = "products_inventory" -> [k \in {"limit"} |-> Const(50)]
      [] query_id \in {"products_low_stock", "recent_ai_interactions",
                       "escalated_cases", "recent_preventa_queries", "stock_alerts",
                       "recent_orders"} -> [k \in {"limit"} |-> Const(20)]
      [] query_id \in {"top_products_by_sales", "interactions_by_case_type"} ->
            [k \in {"limit"} |-> Const(10)]
      [] query_id = "kpi_sales_summary" ->
            [k \in {"date_from", "date_to"} |->
                IF k = "date_from" THEN Today(-395) ELSE Today(1)]
      [] query_id = "ts_sales_by_day" ->
            [k \in {"date_from", "date_to", "limit"} |->
                IF k = "date_from" THEN Today(-30)
                ELSE IF k = "date_to" THEN Today(0) ELSE Const(31)]
      [] query_id = "sales_by_month" ->
            [k \in {"date_from", "date_to", "limit"} |->
                IF k = "date_from" THEN Today(-395)
                ELSE IF k = "date_to" THEN Today(1) ELSE Const(13)]
      [] query_id = "top_products_by_revenue" ->
            [k \in {"date_from", "date_to", "limit"} |->
                IF k = "date_from" THEN Today(-30)
                ELSE IF k = "date_to" THEN Today(1) ELSE Const(10)]
      [] query_id = "sales_by_channel" ->
            [k \in {"date_from", "date_to", "limit"} |->
                IF k = "date_from" THEN Today(-30)
                ELSE IF k = "date_to" THEN Today(0) ELSE Const(10)]
      [] OTHER -> [k \in {} |-> Const(0)]

\* "required_params" of each template
required_params(query_id) ==
    IF query_id \in {"kpi_sales_summary", "ts_sales_by_day", "sales_by_month",
                     "top_products_by_revenue", "sales_by_channel"}
    THEN {"date_from", "date_to"} ELSE {}

\* the override loop without its "is not None" test
Override_with_none(params, user_params) ==
    [k \in DOMAIN params \cup DOMAIN user_params |->
        IF k \in DOMAIN user_params THEN user_params[k] ELSE params[k]]

\* "for key, value in user_params.items(): if value is not None: params[key] = value"
Override(params, user_params) ==
    LET given == { k \in DOMAIN user_params : user_params[k] # NoneParam }
    IN  [k \in DOMAIN params \cup given |->
            IF k \in given THEN user_params[k] ELSE params[k]]

\* build_params(query_id, user_params) called on a given day
build_params(query_id, user_params, day) ==
    IF query_id \notin QUERY_ALLOWLIST
    THEN [raised |-> "ValueError", params |-> [k \in {} |-> 0]]
    ELSE LET defaults == [k \in DOMAIN default_params(query_id) |->
                             CallThunk(default_params(query_id)[k], day)]
             params   == Override(defaults, user_params)
         IN  IF required_params(query_id) \subseteq DOMAIN params
             THEN [raised |-> "", params |-> params]
             ELSE [raised |-> "ValueError", params |-> params]

\* user_params of the callers: any subset of the keys, each None or a value
UserKeys == {"limit", "date_from", "date_to"}

UserValue(key) == IF key = "limit" THEN 5 ELSE TodayOrdinal - 7

UserParams ==
    UNION { [keys -> {0, 1}] : keys \in SUBSET UserKeys }

NoBuild == [query_id |-> None, user_params |-> [k \in {} |-> 0], day |-> 0,
            raised |-> "", params |-> [k \in {} |-> 0]]

InitParams ==
    /\ question = <<>>
    /\ PipeIdle
    /\ GraphIdle
    /\ MemoryIdle
    /\ RouterIdle
    /\ CacheIdle
    /\ RepeatIdle
    /\ RetryIdle
    /\ LRUIdle
    /\ RequestsIdle
    /\ today = TodayOrdinal
    /\ last_build = NoBuild

\* a call of build_params
BuildParams ==
    /\ \E query_id \in QUERY_ALLOWLIST \cup ForeignIds, choice \in UserParams :
          LET user_params == [k \in DOMAIN choice |->
                                 IF choice[k] = 1 THEN UserValue(k) ELSE NoneParam]
              r == build_params(query_id, user_params, today)
          IN  last_build' = [query_id |-> query_id, user_params |-> user_params,
                             day |-> today, raised |-> r.raised, params |-> r.params]
    /\ UNCHANGED <<outsideParams, today>>

\* midnight
NextDay ==
    /\ today < TodayOrdinal + MaxDays
    /\ today' = today + 1
    /\ UNCHANGED <<outsideParams, last_build>>

NextParams == BuildParams \/ NextDay

SpecParams == InitParams /\ [][NextParams]_vars

\* C17: for every parameter, build_params returns the user value when it is
\* not None and otherwise the default, the thunk evaluated on the day of the
\* call; a parameter with neither is absent; None never replaces a default.
C17_BuildParams ==
    (last_build.query_id \in QUERY_ALLOWLIST) =>
        LET user     == last_build.user_params
            defaults == default_params(last_build.query_id)
            params   == last_build.params
        IN  /\ last_build.raised = ""
            /\ \A k \in UserKeys :
                  IF k \in DOMAIN user /\ user[k] # NoneParam
                  THEN k \in DOMAIN params /\ params[k] = user[k]
                  ELSE IF k \in DOMAIN defaults
                  THEN /\ k \in DOMAIN params
                       /\ params[k] = CallThunk(defaults[k], last_build.day)
                       /\ params[k] # NoneParam
                  ELSE k \notin DOMAIN params
            /\ DOMAIN params \subseteq UserKeys

\* a call made after the day the templates were loaded, with None for a key
\* that has a date default and a value for a key that has a default
C17_Witness ==
    /\ last_build.query_id = "ts_sales_by_day"
    /\ last_build.day > TodayOrdinal
    /\ "date_from" \in DOMAIN last_build.user_params
    /\ last_build.user_params["date_from"] = NoneParam
    /\ last_build.params["date_from"] = last_build.day - 30
    /\ "limit" \in DOMAIN last_build.user_params
    /\ last_build.params["limit"] = 5
-----------------------------------------------------------------------------
(* IntentRouter (app/agents/intent_router.py).                              *)

\* IntentRouter.DATA_KEYWORDS
DATA_KEYWORDS ==
    { <<"c","u","a","n","t","o">>, <<"c","u","a","n","t","o","s">>, <<"c","u","a","n","t","a","s">>,
      <<"t","o","t","a","l">>, <<"s","u","m","a">>, <<"c","a","n","t","i","d","a","d">>,
      <<"v","e","n","d","i","m","o","s">>, <<"v","e","n","t","a","s">>, <<"v","e","n","t","a">>,
      <<"v","e","n","d","i","d","o">>, <<"v","e","n","t","e","s","a">>, <<"v","e","t","a","s">>,
      <<"o","r","d","e","n","e","s">>, <<"o","r","d","e","n">>, <<"p","e","d","i","d","o","s">>,
      <<"p","e","d","i","d","o">>, <<"p","r","o","d","u","c","t","o","s">>,
      <<"p","r","o","d","u","c","t","o">>, <<"i","n","v","e","n","t","a","r","i","o">>,
      <<"s","t","o","c","k">>, <<"e","s","c","a","l","a","d","o","s">>,
      <<"e","s","c","a","l","a","c","i","o","n","e","s">>, <<"c","a","s","o","s">>,
      <<"a","g","e","n","t","e">>, <<"a","i">>, <<"b","o","t">>,
      <<"i","n","t","e","r","a","c","c","i","o","n","e","s">>, <<"p","r","e","v","e","n","t","a">>,
      <<"p","r","e","g","u","n","t","a","s">>, <<"i","n","g","r","e","s","o","s">>,
      <<"r","e","v","e","n","u","e">>, <<"f","a","c","t","u","r","a","c","i","o","n">>,
      <<"p","r","o","m","e","d","i","o">>, <<"m","e","d","i","a">>, <<"k","p","i">>,
      <<"m","e","t","r","i","c","a","s">>, <<"e","n","e","r","o">>, <<"f","e","b","r","e","r","o">>,
      <<"m","a","r","z","o">>, <<"a","b","r","i","l">>, <<"m","a","y","o">>,
      <<"j","u","n","i","o">>, <<"j","u","l","i","o">>, <<"a","g","o","s","t","o">>,
      <<"s","e","p","t","i","e","m","b","r","e">>, <<"o","c","t","u","b","r","e">>,
      <<"n","o","v","i","e","m","b","r","e">>, <<"d","i","c","i","e","m","b","r","e">>,
      <<"m","e","s">>, <<"s","e","m","a","n","a">>, <<"d","i","a">>, <<"a","n~","o">>,
      <<"t","r","i","m","e","s","t","r","e">>, <<"p","e","r","i","o","d","o">>, <<"d","i","m","e">>,
      <<"d","a","m","e">>, <<"d","e","c","i","m","e">>, <<"q","u","i","e","r","o">>,
      <<"n","e","c","e","s","i","t","o">>, <<"b","u","s","c","o">> }

\* IntentRouter.DASHBOARD_KEYWORDS
DASHBOARD_KEYWORDS ==
    { <<"m","o","s","t","r","a","m","e">>, <<"m","u","e","s","t","r","a","m","e">>,
      <<"m","u","e","s","t","r","a">>, <<"v","e","r">>, <<"v","i","s","u","a","l","i","z","a">>,
      <<"g","r","a","f","i","c","o">>, <<"g","r","a","f","i","c","o","s">>,
      <<"g","r","a'","f","i","c","o">>, <<"g","r","a'","f","i","c","o","s">>,
      <<"c","h","a","r","t">>, <<"c","h","a","r","t","s">>, <<"d","a","s","h","b","o","a","r","d">>,
      <<"p","a","n","e","l">>, <<"r","e","p","o","r","t","e">>,
      <<"t","e","n","d","e","n","c","i","a">>, <<"t","e","n","d","e","n","c","i","a","s">>,
      <<"e","v","o","l","u","c","i","o","n">>, <<"e","v","o","l","u","c","i","o'","n">>,
      <<"c","o","m","p","a","r","a","r">>, <<"c","o","m","p","a","r","a","c","i","o","n">>,
      <<"c","o","m","p","a","r","a","c","i","o'","n">>, <<"v","e","r","s","u","s">>, <<"v","s">>,
      <<"a","n","a","l","i","s","i","s">>, <<"a","n","a'","l","i","s","i","s">>,
      <<"a","n","a","l","i","z","a">>, <<"a","n","a","l","i","z","a","r">>,
      <<"p","a","r","e","t","o">>, <<"i","n","s","i","g","h","t">>,
      <<"i","n","s","i","g","h","t","s">>, <<"r","e","s","u","m","e","n">>,
      <<"t","i","c","k","e","t">>, <<"r","e","p","o","s","i","c","i","o","n">>,
      <<"r","e","p","o","s","i","c","i","o'","n">>, <<"r","e","p","o","n","e","r">>,
      <<"n","e","c","e","s","i","t","a","r">>, <<"r","e","c","o","m","e","n","d","a","r">>,
      <<"b","a","j","o"," ","s","t","o","c","k">>,
      <<"a","l","t","a"," ","r","o","t","a","c","i","o","n">>, <<"r","o","t","a","c","i","o","n">>,
      <<"r","o","t","a","c","i","o'","n">>, <<"q","u","e","b","r","a","r">>,
      <<"q","u","i","e","b","r","e">>, <<"a","g","o","t","a","r">>,
      <<"a","g","o","t","a","r","s","e">>, <<"a","g","o","t","a","n","d","o">>,
      <<"f","a","l","t","a","n","t","e">>, <<"c","r","i","t","i","c","o">>,
      <<"c","r","i","t","i","c","o","s">>, <<"c","r","i'","t","i","c","o">>,
      <<"c","r","i'","t","i","c","o","s">>, <<"a","l","e","r","t","a","s">>,
      <<"a","l","e","r","t","a">>, <<"p","r","o","y","e","c","c","i","o","n">>,
      <<"p","r","o","y","e","c","t","a","r">>, <<"e","s","t","i","m","a","r">>,
      <<"p","r","e","d","e","c","i","r">>, <<"m","a","r","g","e","n">>,
      <<"g","a","n","a","n","c","i","a">>, <<"b","e","n","e","f","i","c","i","o">>,
      <<"c","y","b","e","r">>, <<"c","y","b","e","r","m","o","n","d","a","y">>,
      <<"b","l","a","c","k"," ","f","r","i","d","a","y">>, <<"h","o","t"," ","s","a","l","e">>,
      <<"c","r","e","c","i","m","i","e","n","t","o">>, <<"c","i","c","l","o">>,
      <<"t","e","m","p","o","r","a","d","a">>, <<"c","o","m","o"," ","v","a","n">>,
      <<"c","o","m","o"," ","e","s","t","a","n">>, <<"c","o","m","o"," ","e","s","t","a">>,
      <<"q","u","e"," ","t","a","l">>, <<"c","o","m","o"," ","v","a","m","o","s">>,
      <<"c","o","m","o"," ","f","u","e">>, <<"c","o","m","o"," ","f","u","e","r","o","n">>,
      <<"c","o","m","o"," ","e","s","t","u","v","o">>,
      <<"c","o","m","o"," ","m","e"," ","f","u","e">>, <<"r","e","s","u","m","e">>,
      <<"r","e","s","u","m","i","r">>, <<"r","e","s","u","m","i","m","e">>,
      <<"s","i","t","u","a","c","i","o","n">>, <<"e","s","t","a","d","o"," ","d","e">>,
      <<"s","t","a","t","u","s">>, <<"u","l","t","i","m","o","s">>, <<"u","l","t","i","m","a","s">>,
      <<"r","e","c","i","e","n","t","e","s">>, <<"h","o","y">>, <<"a","y","e","r">>,
      <<"a","c","t","u","a","l","m","e","n","t","e">>, <<"a","c","t","u","a","l">>,
      <<"e","s","t","e"," ","m","e","s">>, <<"e","s","t","a"," ","s","e","m","a","n","a">>,
      <<"e","s","t","e"," ","a","n~","o">>, <<"c","u","a","l"," ","f","u","e">>,
      <<"c","u","a'","l"," ","f","u","e">>, <<"c","u","a","l"," ","e","s">>,
      <<"c","u","a'","l"," ","e","s">>, <<"m","a","s"," ","v","e","n","d","i","d","o">>,
      <<"m","a'","s"," ","v","e","n","d","i","d","o">>,
      <<"m","e","n","o","s"," ","v","e","n","d","i","d","o">>,
      <<"m","e","j","o","r"," ","m","e","s">>, <<"p","e","o","r"," ","m","e","s">>,
      <<"m","e","j","o","r"," ","d","i","a">>, <<"p","e","o","r"," ","d","i","a">>,
      <<"q","u","e"," ","m","e","s">>, <<"q","u","e'"," ","m","e","s">>,
      <<"e","n"," ","q","u","e"," ","m","e","s">>, <<"e","n"," ","q","u","e'"," ","m","e","s">>,
      <<"q","u","e"," ","p","r","o","d","u","c","t","o">>,
      <<"q","u","e'"," ","p","r","o","d","u","c","t","o">>, <<"c","u","a","l","e","s">>,
      <<"c","u","a'","l","e","s">>, <<"a","u","m","e","n","t","a","r"," ","s","t","o","c","k">>,
      <<"a","u","m","e","n","t","a","r"," ","i","n","v","e","n","t","a","r","i","o">>,
      <<"p","o","n","d","e","r","a","r">>, <<"d","e","b","o"," ","h","a","c","e","r">>,
      <<"d","e","b","e","r","i","a">>, <<"d","e","b","e","r","i'","a">>,
      <<"r","e","c","o","m","i","e","n","d","a">>, <<"s","u","g","i","e","r","e","s">>,
      <<"e","n","e","r","o">>, <<"f","e","b","r","e","r","o">>, <<"m","a","r","z","o">>,
      <<"a","b","r","i","l">>, <<"m","a","y","o">>, <<"j","u","n","i","o">>,
      <<"j","u","l","i","o">>, <<"a","g","o","s","t","o">>,
      <<"s","e","p","t","i","e","m","b","r","e">>, <<"o","c","t","u","b","r","e">>,
      <<"n","o","v","i","e","m","b","r","e">>, <<"d","i","c","i","e","m","b","r","e">> }

\* the domains of IntentRouter.DOMAIN_KEYWORDS
Domains == {"sales", "inventory", "conversations", "escalations", "presale"}

\* IntentRouter.DOMAIN_KEYWORDS
DOMAIN_KEYWORDS(domain) ==
    CASE domain = "sales" ->
            { <<"v","e","n","t","a">>, <<"v","e","n","d","i","d","o">>, <<"o","r","d","e","n">>, <<"p","e","d","i","d","o">>, <<"f","a","c","t","u","r","a">>, <<"i","n","g","r","e","s","o">>, <<"r","e","v","e","n","u","e">> }
      [] domain = "inventory" ->
            { <<"p","r","o","d","u","c","t","o">>, <<"i","n","v","e","n","t","a","r","i","o">>, <<"s","t","o","c","k">>, <<"d","i","s","p","o","n","i","b","l","e">> }
      [] domain = "conversations" ->
            { <<"a","g","e","n","t","e">>, <<"a","i">>, <<"b","o","t">>, <<"i","n","t","e","r","a","c","c","i","o","n">>, <<"c","o","n","v","e","r","s","a","c","i","o","n">>, <<"m","e","n","s","a","j","e">> }
      [] domain = "escalations" ->
            { <<"e","s","c","a","l","a","d","o">>, <<"e","s","c","a","l","a","c","i","o","n">>, <<"c","a","s","o">>, <<"s","o","p","o","r","t","e">>, <<"t","i","c","k","e","t">> }
      [] domain = "presale" ->
            { <<"p","r","e","v","e","n","t","a">>, <<"p","r","e","g","u","n","t","a">>, <<"c","o","n","s","u","l","t","a">> }

\* str.strip() of a text whose only white space is the blank
Strip(s) ==
    LET inked == { i \in 1..Len(s) : s[i] # " " }
    IN  IF inked = {} THEN <<>>
        ELSE SubSeq(s, CHOOSE i \in inked : \A j \in inked : i <= j,
                       CHOOSE i \in inked : \A j \in inked : j <= i)

StartsWith(s, w) == Len(s) >= Len(w) /\ SubSeq(s, 1, Len(w)) = w

\* \w of the regular expressions, over the characters of the questions
RegexWord(c) == c \notin {" ", "?", ".", ",", "/", "-"}

\* the key of the first CONVERSATIONAL_PATTERNS entry re.search finds in q, or ""
ConversationalKey(q) ==
    IF \E w \in { <<"h","o","l","a">>, <<"h","e","y">>, <<"b","u","e","n","a","s">>,
                   <<"b","u","e","n","o","s"," ","d","i","a","s">>,
                   <<"s","a","l","u","d","o","s">> } : StartsWith(q, w)
    THEN "greeting"
    ELSE IF \E w \in { <<"g","r","a","c","i","a","s">>,
                        <<"m","u","c","h","a","s"," ","g","r","a","c","i","a","s">>,
                        <<"t","h","a","n","k","s">>, <<"o","k">>,
                        <<"p","e","r","f","e","c","t","o">>, <<"g","e","n","i","a","l">>,
                        <<"e","x","c","e","l","e","n","t","e">> } : StartsWith(q, w)
    THEN "thanks"
    ELSE IF AnyKw(q, { <<"q","u","e"," ","p","u","e","d","e","s"," ","h","a","c","e","r">>,
                       <<"q","u","e"," ","s","a","b","e","s"," ","h","a","c","e","r">>,
                       <<"a","y","u","d","a">>, <<"h","e","l","p">>,
                       <<"c","o","m","o"," ","f","u","n","c","i","o","n","a">> })
    THEN "help"
    ELSE IF AnyKw(q, { <<"q","u","i","e","n"," ","e","r","e","s">>,
                       <<"q","u","e"," ","e","r","e","s">>,
                       <<"c","o","m","o"," ","t","e"," ","l","l","a","m","a","s">> })
    THEN "identity"
    ELSE ""

\* q from position n + 1 on is \s*\?*$
BlanksThenMarks(q, n) ==
    \E j \in n..Len(q) :
        /\ \A i \in (n + 1)..j : q[i] = " "
        /\ \A i \in (j + 1)..Len(q) : q[i] = "?"

\* q from position n + 1 on is \s+\w+$
BlanksThenWord(q, n) ==
    \E j \in (n + 1)..(Len(q) - 1) :
        /\ \A i \in (n + 1)..j : q[i] = " "
        /\ \A i \in (j + 1)..Len(q) : RegexWord(q[i])

\* the type of the first AMBIGUITY_PATTERNS entry re.search finds in q, or ""
AmbiguityPattern(q) ==
    IF \E w \in { <<"e","s","o">>, <<"e","s","t","o">>, <<"a","q","u","e","l","l","o">>,
                   <<"e","s","e">>, <<"e","s","t","e">>, <<"a","q","u","e","l">> } :
           StartsWith(q, w) /\ (Len(q) = Len(w) \/ ~RegexWord(q[Len(w) + 1]))
    THEN "pronoun_without_context"
    ELSE IF \E w \in { <<"l","o">>, <<"l","a">>, <<"l","o","s">>, <<"l","a","s">>,
                        <<"l","e">>, <<"l","e","s">> } :
           StartsWith(q, w) /\ BlanksThenWord(q, Len(w))
    THEN "short_pronoun"
    ELSE IF \E w \in { <<"c","u","a","n","t","o">>, <<"c","u","a","n","t","o","s">>,
                        <<"c","u","a","n","t","a","s">>, <<"q","u","e">>,
                        <<"c","o","m","o">> } :
           StartsWith(q, w) /\ BlanksThenMarks(q, Len(w))
    THEN "too_short"
    ELSE IF \E w \in { <<"m","o","s","t","r","a","m","e">>,
                        <<"m","u","e","s","t","r","a","m","e">>, <<"d","a","m","e">>,
                        <<"d","i","m","e">> } :
           StartsWith(q, w) /\ BlanksThenMarks(q, Len(w))
    THEN "show_without_object"
    ELSE IF \E w \in { <<"c","o","m","p","a","r","a">>, <<"c","o","m","p","a","r","a","r">>,
                        <<"v","e","r","s","u","s">>, <<"v","s">> } :
           StartsWith(q, w) /\ \A i \in (Len(w) + 1)..Len(q) : q[i] = " "
    THEN "compare_without_subject"
    ELSE ""

\* len(q.split())
WordCount(q) ==
    Cardinality({ i \in 1..Len(q) : q[i] # " " /\ (i = 1 \/ q[i - 1] = " ") })

\* a short-question test that never fires
TooShort_never(q) == FALSE

\* fewer than 3 words and no data or dashboard keyword
TooShort(q) ==
    WordCount(q) < 3 /\ ~AnyKw(q, DATA_KEYWORDS \cup DASHBOARD_KEYWORDS)

\* sum(1 for kw in keywords if kw in q)
DomainScore(q, domain) ==
    Cardinality({ kw \in DOMAIN_KEYWORDS(domain) : Contains(q, kw) })

\* _detect_ambiguity(q): the ambiguity type, or "" for (False, "")
detect_ambiguity(q) ==
    IF AmbiguityPattern(q) # "" THEN AmbiguityPattern(q)
    ELSE IF TooShort(q) THEN "too_short"
    ELSE IF \E d1, d2 \in Domains :
              /\ d1 # d2
              /\ DomainScore(q, d1) > 0
              /\ DomainScore(q, d1) = DomainScore(q, d2)
              /\ \A d \in Domains : DomainScore(q, d) <= DomainScore(q, d1)
    THEN "multi_domain"
    ELSE IF /\ AnyKw(q, { <<"c","o","m","p","a","r","a","r">>,
                          <<"c","o","m","p","a","r","a","c","i","o","n">>,
                          <<"v","e","r","s","u","s">>, <<"v","s">> })
            /\ ~AnyKw(q, { <<"m","e","s">>, <<"s","e","m","a","n","a">>, <<"d","i","a">>,
                           <<"a","n~","o">>, <<"a","y","e","r">>, <<"h","o","y">>,
                           <<"e","n","e","r","o">>, <<"f","e","b","r","e","r","o">>,
                           <<"m","a","r","z","o">>, <<"a","b","r","i","l">>,
                           <<"m","a","y","o">>, <<"j","u","n","i","o">>,
                           <<"j","u","l","i","o">>, <<"a","g","o","s","t","o">>,
                           <<"s","e","p","t","i","e","m","b","r","e">>,
                           <<"o","c","t","u","b","r","e">>,
                           <<"n","o","v","i","e","m","b","r","e">>,
                           <<"d","i","c","i","e","m","b","r","e">> })
    THEN "comparison_without_period"
    ELSE ""

\* what the language model of _route_with_llm can answer: a response_type, or
\* a failure (an exception of the call or of json.loads)
LLMRouteOutcomes == {"dashboard", "data_only", "conversational", "clarification", "error"}

Routed(decision, reasoning, llm_consulted) ==
    [decision |-> decision, reasoning |-> reasoning, llm_consulted |-> llm_consulted]

\* _route_with_llm(question) when the model answers llm
route_with_llm(llm) ==
    CASE llm = "clarification"  -> Routed(Clarification, "LLM semantic clarification", TRUE)
      [] llm = "conversational" -> Routed(Conversational(TRUE), "LLM semantic", TRUE)
      [] llm = "data_only"      -> Routed(DataOnly, "LLM semantic", TRUE)
      [] llm = "dashboard"      -> Routed(Dashboard, "LLM semantic", TRUE)
      [] OTHER                  -> Routed(Dashboard, "LLM error fallback", TRUE)

\* IntentRouter.route(question); llm is what the model would answer if asked
route(text, llm) ==
    LET q_lower == Strip(Lower(text))
        needs_dashboard == AnyKw(q_lower, DASHBOARD_KEYWORDS)
        needs_data == AnyKw(q_lower, DATA_KEYWORDS) \/ needs_dashboard
    IN  IF ConversationalKey(q_lower) # ""
        THEN Routed(Conversational(TRUE), ConversationalKey(q_lower), FALSE)
        ELSE IF detect_ambiguity(q_lower) # ""
        THEN Routed(Clarification, detect_ambiguity(q_lower), FALSE)
        ELSE IF ~needs_data /\ ~needs_dashboard THEN route_with_llm(llm)
        ELSE IF needs_dashboard THEN Routed(Dashboard, "Dashboard requested", FALSE)
        ELSE Routed(DataOnly, "Data query", FALSE)

\* characters of the short questions
ShortAlphabet == {"o", "k", "O", "K", "a", "i", "v", "s", "h", " ", "?"}

\* longest short question
MaxShortLen == 2

\* the questions put to the router: every text of at most MaxShortLen
\* characters of the alphabet, and the sample questions
RouterQuestions ==
    UNION { [1..n -> ShortAlphabet] : n \in 0..MaxShortLen } \cup Questions

\* route has not been called
NoRouting == Routed(NoDecision, "", FALSE)

InitRouter ==
    /\ question \in RouterQuestions
    /\ PipeIdle
    /\ GraphIdle
    /\ MemoryIdle
    /\ ParamsIdle
    /\ CacheIdle
    /\ RepeatIdle
    /\ RetryIdle
    /\ LRUIdle
    /\ RequestsIdle
    /\ routing = NoRouting
    /\ use_llm_router \in BOOLEAN

\* get_intent_router().route(question)
Route ==
    /\ routing = NoRouting
    /\ \E llm \in LLMRouteOutcomes : routing' = route(question, llm)
    /\ UNCHANGED use_llm_router
    /\ UNCHANGED outsideRouter

NextRouter == Route

SpecRouter == InitRouter /\ [][NextRouter]_vars

\* the question, as the router reads it
RoutedText == Strip(Lower(question))

\* C18 as stated: a question of at most 2 characters without a data or
\* dashboard keyword is routed as clarification and the language model is not
\* consulted.
C18_ShortIsClarification ==
    (routing # NoRouting /\ Len(question) <= 2
       /\ ~AnyKw(RoutedText, DATA_KEYWORDS \cup DASHBOARD_KEYWORDS))
    => (routing.decision.response_type = "clarification" /\ ~routing.llm_consulted)

\* C18 amended: a question of at most 2 characters that matches no
\* conversational pattern and has no data or dashboard keyword is routed as
\* clarification and the language model is not consulted.
C18_ShortUnmatchedIsClarification ==
    (routing # NoRouting /\ Len(question) <= 2
       /\ ConversationalKey(RoutedText) = ""
       /\ ~AnyKw(RoutedText, DATA_KEYWORDS \cup DASHBOARD_KEYWORDS))
    => (routing.decision.response_type = "clarification" /\ ~routing.llm_consulted)

\* a two-letter question without keyword was routed by the short-question test
C18_Witness ==
    /\ question = <<"h", "i">>
    /\ routing.decision.response_type = "clarification"
    /\ routing.reasoning = "too_short"

\* ---------------------------------------------------------------------
\* Process-wide caches: the three LRUCache objects of app/graphs/cache.py
\* behind cached_node and invalidate_cache, and the TTLCache _query_cache
\* of app/db/supabase_client.py.  Node code runs on executor threads
\* (graph.astream over synchronous nodes), so the workers interleave at
\* every statement that is not inside a held lock.  The hit and miss
\* counters of LRUCache are left out: no claim reads them.
\* ---------------------------------------------------------------------

\* ttl_seconds of _query_cache
QUERY_TTL == 300

\* seconds one CacheTick adds to time.time(): one lifetime of a query
\* cache entry
TickSeconds == QUERY_TTL

\* the last reading of time.time() modelled
MaxCacheClock == 300

Workers == {"w1", "w2"}

\* the content hashes CachePolicy.generate_key and the query cache keys
\* range over
CacheKeys == {"k1"}

CachedNodes == {"Router", "DataAgent", "PresentationAgent", "DirectResponse"}

CacheNames == {"router", "data", "presentation"}

\* the value a node or a query computes for a key
CachedRows == "rows"

NODE_CACHE_POLICIES(node_name) ==
    CASE node_name = "Router" ->
            [enabled |-> TRUE, ttl_seconds |-> 600, max_size |-> 200]
      [] node_name = "DataAgent" ->
            [enabled |-> TRUE, ttl_seconds |-> 300, max_size |-> 100]
      [] node_name = "PresentationAgent" ->
            [enabled |-> TRUE, ttl_seconds |-> 180, max_size |-> 50]
      [] node_name = "DirectResponse" ->
            [enabled |-> TRUE, ttl_seconds |-> 3600, max_size |-> 50]

\* max_size of _router_cache, _data_cache, _presentation_cache
LRUMaxSize(name) ==
    CASE name = "router" -> 200
      [] name = "data" -> 100
      [] name = "presentation" -> 50

get_cache_for_node(node_name) ==
    IF node_name = "Router" THEN "router"
    ELSE IF node_name = "DataAgent" THEN "data"
    ELSE IF node_name \in {"PresentationAgent", "DirectResponse"} THEN "presentation"
    ELSE "data"

\* position of key in an OrderedDict kept as a sequence, oldest first; 0
\* when the key is not in it
IndexOfKey(c, key) ==
    IF \E i \in 1..Len(c) : c[i].key = key
    THEN CHOOSE i \in 1..Len(c) : c[i].key = key
    ELSE 0

Without(c, i) == SubSeq(c, 1, i - 1) \o SubSeq(c, i + 1, Len(c))

\* a get that returns whatever entry it finds
LRUCache_get_no_expiry(c, key, t) ==
    LET i == IndexOfKey(c, key) IN
    IF i = 0 THEN [cache |-> c, value |-> None]
    ELSE [cache |-> Append(Without(c, i), c[i]), value |-> c[i].value]

\* LRUCache.get inside the lock: the cache it leaves and the value returned
LRUCache_get(c, key, t) ==
    LET i == IndexOfKey(c, key) IN
    IF i = 0 THEN [cache |-> c, value |-> None]
    ELSE IF c[i].expires_at < t THEN [cache |-> Without(c, i), value |-> None]
    ELSE [cache |-> Append(Without(c, i), c[i]), value |-> c[i].value]

\* a set that never evicts
LRUCache_set_no_evict(c, key, value, expires_at, max_size) ==
    LET i == IndexOfKey(c, key)
        entry == [key |-> key, value |-> value, expires_at |-> expires_at]
    IN  IF i # 0 THEN Append(Without(c, i), entry) ELSE Append(c, entry)

\* a set that leaves a key it stores again where it was
LRUCache_set_no_move(c, key, value, expires_at, max_size) ==
    LET i == IndexOfKey(c, key)
        entry == [key |-> key, value |-> value, expires_at |-> expires_at]
    IN  IF i # 0 THEN [c EXCEPT ![i] = entry]
        ELSE IF Len(c) >= max_size
             THEN Append(SubSeq(c, Len(c) - max_size + 2, Len(c)), entry)
             ELSE Append(c, entry)

\* LRUCache.set inside the lock; expires_at was computed before the lock
LRUCache_set(c, key, value, expires_at, max_size) ==
    LET i == IndexOfKey(c, key)
        entry == [key |-> key, value |-> value, expires_at |-> expires_at]
    IN  IF i # 0 THEN Append(Without(c, i), entry)
        ELSE IF Len(c) >= max_size
             THEN Append(SubSeq(c, Len(c) - max_size + 2, Len(c)), entry)
             ELSE Append(c, entry)

LRUCache_clear(c) == <<>>

\* TTLCache._cache as a set of entries, one for a key at most
HasKey(cache, key) == \E e \in cache : e.key = key

EntryOf(cache, key) == CHOOSE e \in cache : e.key = key

TTLCache_set(cache, key, value, t) ==
    {e \in cache : e.key # key} \cup {[key |-> key, value |-> value, timestamp |-> t]}

\* what a node function can return to the cached_node wrapper: a result
\* without an error, a result whose "error" is set, or an empty one
NodeResults == {CachedRows, "error_result", "empty_result"}

\* bool(result)
Truthy(result) == result # "empty_result"

\* bool(result.get("error"))
HasError(result) == result = "error_result"

\* a wrapper that stores every result
ShouldCache_always(result) == TRUE

\* "if result and not result.get("error")" of the cached_node wrapper
ShouldCache(result) == Truthy(result) /\ ~HasError(result)

IdleWorker == [pc |-> "idle", node |-> "", key |-> "", seen |-> 0, result |-> ""]

InitCache ==
    /\ question = <<>>
    /\ PipeIdle
    /\ GraphIdle
    /\ MemoryIdle
    /\ ParamsIdle
    /\ RouterIdle
    /\ RepeatIdle
    /\ RetryIdle
    /\ LRUIdle
    /\ RequestsIdle
    /\ node_caches = [c \in CacheNames |-> <<>>]
    /\ node_locks = [c \in CacheNames |-> None]
    /\ query_cache = {}
    /\ workers = [t \in Workers |-> IdleWorker]
    /\ cache_clock = 0
    /\ inv_pc = "idle"

\* SupabaseRESTClient._execute_*: _query_cache.get(cache_key), first
\* statement of TTLCache.get: key in self._cache
TTLGetContains(t) ==
    /\ workers[t].pc = "idle"
    /\ \E k \in CacheKeys :
         workers' = [workers EXCEPT ![t] =
            [pc |-> IF HasKey(query_cache, k) THEN "q_read" ELSE "q_fetch",
             node |-> "", key |-> k, seen |-> 0, result |-> ""]]
    /\ UNCHANGED <<node_caches, node_locks, query_cache, cache_clock, inv_pc>>
    /\ UNCHANGED outsideCache

\* TTLCache.get: value, timestamp = self._cache[key], then the age test;
\* a fresh entry is returned and the caller is done
TTLGetRead(t) ==
    /\ workers[t].pc = "q_read"
    /\ IF ~HasKey(query_cache, workers[t].key)
       THEN workers' = [workers EXCEPT ![t].pc = "q_keyerror"]
       ELSE LET e == EntryOf(query_cache, workers[t].key) IN
            IF cache_clock - e.timestamp < QUERY_TTL
            THEN workers' = [workers EXCEPT ![t] = IdleWorker]
            ELSE workers' = [workers EXCEPT ![t].pc = "q_del", ![t].seen = e.timestamp]
    /\ UNCHANGED <<node_caches, node_locks, query_cache, cache_clock, inv_pc>>
    /\ UNCHANGED outsideCache

\* TTLCache.get: del self._cache[key], then return None
TTLGetDel(t) ==
    /\ workers[t].pc = "q_del"
    /\ IF ~HasKey(query_cache, workers[t].key)
       THEN /\ workers' = [workers EXCEPT ![t].pc = "q_keyerror"]
            /\ UNCHANGED query_cache
       ELSE /\ query_cache' = {e \in query_cache : e.key # workers[t].key}
            /\ workers' = [workers EXCEPT ![t].pc = "q_fetch"]
    /\ UNCHANGED <<node_caches, node_locks, cache_clock, inv_pc>>
    /\ UNCHANGED outsideCache

\* after a miss: the query runs and _query_cache.set(cache_key, result)
TTLSet(t) ==
    /\ workers[t].pc = "q_fetch"
    /\ query_cache' = TTLCache_set(query_cache, workers[t].key, CachedRows, cache_clock)
    /\ workers' = [workers EXCEPT ![t] = IdleWorker]
    /\ UNCHANGED <<node_caches, node_locks, cache_clock, inv_pc>>
    /\ UNCHANGED outsideCache

\* the KeyError of TTLCache.get leaves the query method
TTLGetRaise(t) ==
    /\ workers[t].pc = "q_keyerror"
    /\ workers' = [workers EXCEPT ![t] = IdleWorker]
    /\ UNCHANGED <<node_caches, node_locks, query_cache, cache_clock, inv_pc>>
    /\ UNCHANGED outsideCache

\* cached_node wrapper: cache.get(cache_key) enters with self._lock
NodeGetAcquire(t) ==
    /\ workers[t].pc = "idle"
    /\ \E n \in CachedNodes, k \in CacheKeys :
         /\ NODE_CACHE_POLICIES(n).enabled
         /\ node_locks[get_cache_for_node(n)] = None
         /\ node_locks' = [node_locks EXCEPT ![get_cache_for_node(n)] = t]
         /\ workers' = [workers EXCEPT ![t] =
               [pc |-> "n_get", node |-> n, key |-> <<n, k>>, seen |-> 0,
                result |-> ""]]
    /\ UNCHANGED <<node_caches, query_cache, cache_clock, inv_pc>>
    /\ UNCHANGED outsideCache

\* LRUCache.get under the lock, which it releases; on a hit the wrapper
\* returns the cached result
NodeGetBody(t) ==
    /\ workers[t].pc = "n_get"
    /\ LET c == get_cache_for_node(workers[t].node)
           r == LRUCache_get(node_caches[c], workers[t].key, cache_clock)
       IN  /\ node_caches' = [node_caches EXCEPT ![c] = r.cache]
           /\ node_locks' = [node_locks EXCEPT ![c] = None]
           /\ workers' = [workers EXCEPT ![t] =
                 IF r.value # None
                 THEN [workers[t] EXCEPT !.pc = "n_hit", !.result = r.value]
                 ELSE [workers[t] EXCEPT !.pc = "n_run"]]
    /\ UNCHANGED <<query_cache, cache_clock, inv_pc>>
    /\ UNCHANGED outsideCache

\* cached_node wrapper: func(state); only a result without an error goes
\* on to cache.set, whose expires_at is taken before the lock
NodeRun(t) ==
    /\ workers[t].pc = "n_run"
    /\ \E result \in NodeResults :
         workers' = [workers EXCEPT ![t] =
            IF ~ShouldCache(result)
            THEN [workers[t] EXCEPT !.pc = "n_return", !.result = result]
            ELSE [workers[t] EXCEPT
                    !.pc = "n_set_wait",
                    !.result = result,
                    !.seen = cache_clock
                             + NODE_CACHE_POLICIES(workers[t].node).ttl_seconds]]
    /\ UNCHANGED <<node_caches, node_locks, query_cache, cache_clock, inv_pc>>
    /\ UNCHANGED outsideCache

NodeSetAcquire(t) ==
    /\ workers[t].pc = "n_set_wait"
    /\ node_locks[get_cache_for_node(workers[t].node)] = None
    /\ node_locks' = [node_locks EXCEPT ![get_cache_for_node(workers[t].node)] = t]
    /\ workers' = [workers EXCEPT ![t].pc = "n_set"]
    /\ UNCHANGED <<node_caches, query_cache, cache_clock, inv_pc>>
    /\ UNCHANGED outsideCache

NodeSetBody(t) ==
    /\ workers[t].pc = "n_set"
    /\ LET c == get_cache_for_node(workers[t].node) IN
         /\ node_caches' = [node_caches EXCEPT ![c] =
               LRUCache_set(node_caches[c], workers[t].key, workers[t].result,
                            workers[t].seen, LRUMaxSize(c))]
         /\ node_locks' = [node_locks EXCEPT ![c] = None]
    /\ workers' = [workers EXCEPT ![t] =
                      [workers[t] EXCEPT !.pc = "n_return", !.seen = 0]]
    /\ UNCHANGED <<query_cache, cache_clock, inv_pc>>
    /\ UNCHANGED outsideCache

\* the wrapper returns: "return cached_result" after a hit, "return result"
\* after the node function ran
NodeReturn(t) ==
    /\ workers[t].pc \in {"n_hit", "n_return"}
    /\ workers' = [workers EXCEPT ![t] = IdleWorker]
    /\ UNCHANGED <<node_caches, node_locks, query_cache, cache_clock, inv_pc>>
    /\ UNCHANGED outsideCache

\* invalidate_cache(None), called by invalidate_all_cache: the caches it
\* clears, in the order it clears them
InvalidateOrder == <<"router", "data", "presentation">>

\* where the handler stands once it has cleared the first i caches
InvalidatePc(i) ==
    IF i = Len(InvalidateOrder) THEN "returned" ELSE InvalidateOrder[i]

\* one <cache>.clear() of invalidate_cache: taken when the lock is free
InvalidateClear(i) ==
    /\ IF i = 1 THEN inv_pc \in {"idle", "returned"} ELSE inv_pc = InvalidatePc(i - 1)
    /\ node_locks[InvalidateOrder[i]] = None
    /\ node_caches' = [node_caches EXCEPT ![InvalidateOrder[i]] = LRUCache_clear(@)]
    /\ inv_pc' = InvalidatePc(i)
    /\ UNCHANGED <<node_locks, query_cache, workers, cache_clock>>
    /\ UNCHANGED outsideCache

\* POST /api/cache/invalidate
invalidate_all_cache == \E i \in 1..Len(InvalidateOrder) : InvalidateClear(i)

CacheTick ==
    /\ cache_clock + TickSeconds <= MaxCacheClock
    /\ cache_clock' = cache_clock + TickSeconds
    /\ UNCHANGED <<node_caches, node_locks, query_cache, workers, inv_pc>>
    /\ UNCHANGED outsideCache

QueryWorker == \E t \in Workers :
    TTLGetContains(t) \/ TTLGetRead(t) \/ TTLGetDel(t) \/ TTLSet(t) \/ TTLGetRaise(t)

NodeWorker == \E t \in Workers :
    \/ NodeGetAcquire(t) \/ NodeGetBody(t) \/ NodeRun(t) \/ NodeSetAcquire(t)
    \/ NodeSetBody(t) \/ NodeReturn(t)

NextCache == QueryWorker \/ NodeWorker \/ invalidate_all_cache \/ CacheTick

SpecCache == InitCache /\ [][NextCache]_vars

AllCachesEmpty ==
    /\ \A c \in CacheNames : node_caches[c] = <<>>
    /\ query_cache = {}

\* C19: when POST /cache/invalidate completes, every cache in the process
\* is empty, so that a lookup of any key stored before misses.
C19_InvalidateEmptiesAll ==
    [][(inv_pc # "returned" /\ inv_pc' = "returned") => AllCachesEmpty']_vars

\* C20: lookups and stores issued by parallel requests are atomic: no
\* lookup fails on an entry another request removed, and no step other
\* than an invalidation removes an entry that has not expired, in any of
\* the process-wide caches.
C20_LookupsAndStoresAtomic ==
    [][/\ \A t \in Workers : workers'[t].pc # "q_keyerror"
       /\ \A e \in query_cache :
            ~HasKey(query_cache', e.key) => ~(cache_clock - e.timestamp < QUERY_TTL)
       /\ inv_pc' = inv_pc =>
            \A c \in CacheNames : \A i \in 1..Len(node_caches[c]) :
               IndexOfKey(node_caches'[c], node_caches[c][i].key) = 0
                  => node_caches[c][i].expires_at < cache_clock]_vars

\* C37: cached_node never stores a node result that carries an error, so no
\* call is served a failed result from the cache.
C37_NoErrorCached ==
    /\ \A c \in CacheNames : \A i \in 1..Len(node_caches[c]) :
          ~HasError(node_caches[c][i].value)
    /\ \A t \in Workers : workers[t].pc = "n_hit" => ~HasError(workers[t].result)

\* a node function returned a result with an error to the wrapper, which
\* returns it while the cache of the node has no entry for the key
C37_Witness ==
    \E t \in Workers :
        /\ workers[t].pc = "n_return"
        /\ HasError(workers[t].result)
        /\ IndexOfKey(node_caches[get_cache_for_node(workers[t].node)],
                      workers[t].key) = 0

\* C22: when USE_LLM_ROUTER is false the router never calls the language
\* model: the decision comes from the keyword classifier alone.
C22_NoLLMWhenDisabled ==
    (routing # NoRouting /\ ~use_llm_router) => ~routing.llm_consulted

-----------------------------------------------------------------------------
(* Repeated invocations of the heuristics on one question: IntentRouter     *)
(* .route, DataAgent._decide_queries_heuristic and PresentationAgent        *)
(* ._build_spec_heuristic, with the clock free to advance between them.     *)

MaxInvocations == 3

MaxRepClock == 2

\* clock readings that share one minute of strftime('%d/%m/%Y %H:%M')
TicksPerMinute == 2

\* db answer that gives the handler of a query id rows when it can have any
RowsOutcome(query_id) == IF "rows" \in DbOutcomes(query_id) THEN "rows" ELSE "empty"

\* execute_plan(plan, params) from payload p when no query fails
RECURSIVE execute_plan_rows(_, _)
execute_plan_rows(ids, p) ==
    IF ids = <<>> THEN p
    ELSE execute_plan_rows(Tail(ids),
            FoldResult(p, execute_safe_query(Head(ids), RowsOutcome(Head(ids)))))

\* the payload the composer is invoked on for a question
PayloadFor(q) == execute_plan_rows(decide_queries_heuristic(q), EmptyPayload)

\* the DashboardSpec _build_spec_heuristic returns when the clock reads t:
\* the slots, the "Generado: <minute>" subtitle and generated_at
DashboardSpecAt(slots, t) ==
    [slots |-> slots, subtitle |-> t \div TicksPerMinute, generated_at |-> t]

Invocation(component, output) ==
    [component |-> component, at |-> rep_clock, output |-> output]

InitRepeat ==
    /\ question \in Questions
    /\ PipeIdle
    /\ GraphIdle
    /\ MemoryIdle
    /\ ParamsIdle
    /\ RouterIdle
    /\ CacheIdle
    /\ rep_clock = 0
    /\ rep_log = <<>>
    /\ RetryIdle
    /\ LRUIdle
    /\ RequestsIdle

\* IntentRouter.route(question) on a question it settles without the model
InvokeRouter ==
    /\ Len(rep_log) < MaxInvocations
    /\ \E llm \in LLMRouteOutcomes :
          LET r == route(question, llm) IN
          /\ ~r.llm_consulted
          /\ rep_log' = Append(rep_log,
                Invocation("Router", [decision |-> r.decision, reasoning |-> r.reasoning]))
    /\ UNCHANGED rep_clock
    /\ UNCHANGED outsideRepeat

\* DataAgent._decide_queries_heuristic(question)
InvokePlanner ==
    /\ Len(rep_log) < MaxInvocations
    /\ rep_log' = Append(rep_log,
          Invocation("Planner", [query_ids |-> decide_queries_heuristic(question)]))
    /\ UNCHANGED rep_clock
    /\ UNCHANGED outsideRepeat

\* PresentationAgent._build_spec_heuristic(question, payload)
InvokeComposer ==
    /\ Len(rep_log) < MaxInvocations
    /\ rep_log' = Append(rep_log,
          Invocation("Composer",
              DashboardSpecAt(build_spec_heuristic(PayloadFor(question)), rep_clock)))
    /\ UNCHANGED rep_clock
    /\ UNCHANGED outsideRepeat

RepTick ==
    /\ rep_clock < MaxRepClock
    /\ rep_clock' = rep_clock + 1
    /\ UNCHANGED rep_log
    /\ UNCHANGED outsideRepeat

NextRepeat == InvokeRouter \/ InvokePlanner \/ InvokeComposer \/ RepTick

SpecRepeat == InitRepeat /\ [][NextRepeat]_vars

\* C23: for a fixed question (and payload) with no language model involved,
\* repeated invocations of the Router, of the Planner and of the heuristic
\* Composer return identical outputs.
C23_HeuristicsDeterministic ==
    \A i, j \in 1..Len(rep_log) :
        rep_log[i].component = rep_log[j].component
            => rep_log[i].output = rep_log[j].output

\* ---------------------------------------------------------------------
\* One language-model call.  The agents call the model through
\* _invoke_structured, which is not decorated; retry_with_backoff is
\* defined in data_agent.py and in presentation_agent.py and decorates
\* no function of the repository, so its wrapper is driven here around a
\* function of its own.
\* ---------------------------------------------------------------------

\* defaults of retry_with_backoff(max_retries, base_delay, max_delay)
max_retries == 3

base_delay == 2

max_delay == 60

DirectCallers == {"DataAgent._invoke_structured", "PresentationAgent._invoke_structured"}

DecoratedCallers == {"data_agent.retry_with_backoff", "presentation_agent.retry_with_backoff"}

\* no "retry in <seconds>" phrase in the text of the exception
NoSuggestion == 0 - 1

\* the seconds a "retry in <seconds>" phrase of a rate-limit error can name
SuggestedDelays == {0, 30, 59, 90}

\* the exceptions a model call can raise: one whose text has "429",
\* "RESOURCE_EXHAUSTED" or "quota", with or without a suggested delay, or
\* any other
LLMErrors ==
    { [kind |-> "rate_limit", retry_in |-> s] : s \in SuggestedDelays \cup {NoSuggestion} }
    \cup { [kind |-> "other", retry_in |-> NoSuggestion] }

IsRateLimit(e) == e.kind = "rate_limit"

RECURSIVE Pow2(_)
Pow2(n) == IF n = 0 THEN 1 ELSE 2 * Pow2(n - 1)

Min(a, b) == IF a < b THEN a ELSE b

\* the delay the wrapper computes on a rate-limit error of attempt number
\* attempt (from 0); only presentation_agent.py reads the suggested delay
BackoffDelay(caller, attempt, e) ==
    IF caller = "presentation_agent.retry_with_backoff" /\ e.retry_in # NoSuggestion
    THEN Min(Min(e.retry_in + 1, max_delay), max_delay)
    ELSE Min(base_delay * Pow2(attempt), max_delay)

ProviderConfigs ==
    { [use_openrouter_primary |-> p, llm_openrouter |-> o] : p, o \in BOOLEAN }

NoProviders == [use_openrouter_primary |-> FALSE, llm_openrouter |-> FALSE]

\* whether _invoke_structured calls the other provider after the first
\* call raised e
FallsBack(cfg, e) ==
    IF cfg.use_openrouter_primary /\ cfg.llm_openrouter THEN TRUE
    ELSE cfg.llm_openrouter /\ IsRateLimit(e)

InitRetry ==
    /\ question = <<>>
    /\ PipeIdle
    /\ GraphIdle
    /\ MemoryIdle
    /\ ParamsIdle
    /\ RouterIdle
    /\ CacheIdle
    /\ RepeatIdle
    /\ LRUIdle
    /\ RequestsIdle
    /\ rl_caller \in DirectCallers \cup DecoratedCallers
    /\ rl_cfg \in (IF rl_caller \in DirectCallers THEN ProviderConfigs ELSE {NoProviders})
    /\ rl_pc = "call"
    /\ rl_errors = <<>>
    /\ rl_waits = <<>>

\* _invoke_structured: structured_llm.invoke(messages)
InvokeStructured ==
    /\ rl_caller \in DirectCallers
    /\ rl_pc = "call"
    /\ \/ /\ rl_pc' = "returned"
          /\ UNCHANGED rl_errors
       \/ \E e \in LLMErrors :
             /\ rl_errors' = Append(rl_errors, e)
             /\ rl_pc' = IF FallsBack(rl_cfg, e) THEN "fallback_call" ELSE "raised"
    /\ UNCHANGED <<rl_caller, rl_cfg, rl_waits>>
    /\ UNCHANGED outsideRetry

\* _invoke_structured: fallback_llm.invoke(messages) inside the except clause
InvokeFallback ==
    /\ rl_caller \in DirectCallers
    /\ rl_pc = "fallback_call"
    /\ \/ /\ rl_pc' = "returned"
          /\ UNCHANGED rl_errors
       \/ \E e \in LLMErrors :
             /\ rl_errors' = Append(rl_errors, e)
             /\ rl_pc' = "raised"
    /\ UNCHANGED <<rl_caller, rl_cfg, rl_waits>>
    /\ UNCHANGED outsideRetry

\* one iteration of "for attempt in range(max_retries)" of the wrapper, up
\* to its time.sleep(delay); the attempt number is the count of exceptions
\* so far
WrapperAttempt ==
    /\ rl_caller \in DecoratedCallers
    /\ rl_pc = "call"
    /\ Len(rl_errors) < max_retries
    /\ \/ /\ rl_pc' = "returned"
          /\ UNCHANGED <<rl_errors, rl_waits>>
       \/ \E e \in LLMErrors :
             LET attempt == Len(rl_errors) IN
             /\ rl_errors' = Append(rl_errors, e)
             /\ IF ~IsRateLimit(e)
                THEN /\ rl_pc' = "raised"
                     /\ UNCHANGED rl_waits
                ELSE IF attempt < max_retries - 1
                THEN /\ rl_pc' = "sleeping"
                     /\ rl_waits' = Append(rl_waits, BackoffDelay(rl_caller, attempt, e))
                ELSE /\ rl_pc' = "raised"
                     /\ UNCHANGED rl_waits
    /\ UNCHANGED <<rl_caller, rl_cfg>>
    /\ UNCHANGED outsideRetry

\* time.sleep(delay) returns
WrapperSleep ==
    /\ rl_pc = "sleeping"
    /\ rl_pc' = "call"
    /\ UNCHANGED <<rl_caller, rl_cfg, rl_errors, rl_waits>>
    /\ UNCHANGED outsideRetry

NextRetry == InvokeStructured \/ InvokeFallback \/ WrapperAttempt \/ WrapperSleep

SpecRetry == InitRetry /\ [][NextRetry]_vars

\* the properties of a retried call, for the callers in the set
RetriedWithBackoff(callers) ==
    rl_caller \in callers =>
        \* a call that kept failing with rate-limit errors was made 3 times
        /\ (rl_pc = "raised" /\ \A i \in 1..Len(rl_errors) : IsRateLimit(rl_errors[i]))
              => Len(rl_errors) = max_retries
        /\ Len(rl_errors) <= max_retries
        \* every call but the first came after a wait
        /\ Len(rl_waits) = Len(rl_errors) - (IF rl_pc = "raised" THEN 1 ELSE 0)
        \* the waits are capped, and exponential from the base when the
        \* error suggests no delay
        /\ \A i \in 1..Len(rl_waits) :
              /\ rl_waits[i] <= max_delay
              /\ rl_errors[i].retry_in = NoSuggestion =>
                    rl_waits[i] = Min(base_delay * Pow2(i - 1), max_delay)
        \* no call follows an error that is not rate-limit-shaped
        /\ \A i \in 1..(Len(rl_errors) - 1) : IsRateLimit(rl_errors[i])

\* C34: a language-model call that keeps failing with rate-limit-shaped
\* errors is made up to 3 times with capped exponential waits (base 2 s,
\* never more than 60 s) between the calls, and a call failing with any
\* other error is not retried.
C34_RateLimitRetried == RetriedWithBackoff(DirectCallers \cup DecoratedCallers)

\* ---------------------------------------------------------------------
\* One LRUCache object (app/graphs/cache.py) called from several
\* threads.  Every method body runs inside "with self._lock", so a body
\* is one step; set and cleanup_expired read time.time() before they take
\* the lock, so each is a start step and a body step.
\* ---------------------------------------------------------------------

\* max_size of the LRUCache object driven here
LruMaxSize == 2

\* ttl of the entries, in seconds
LruTTL == 1

\* the last reading of time.time() modelled
MaxLruClock == 2

LruKeys == {"k1", "k2", "k3"}

LruThreads == {"t1", "t2"}

KeysOf(c) == { c[i].key : i \in 1..Len(c) }

\* LRUCache.delete inside the lock
LRUCache_delete(c, key) ==
    LET i == IndexOfKey(c, key) IN IF i = 0 THEN c ELSE Without(c, i)

\* LRUCache.cleanup_expired inside the lock; now was read before the lock
LRUCache_cleanup_expired(c, now_read) ==
    SelectSeq(c, LAMBDA e : ~(e.expires_at < now_read))

\* the keys of order that are still in the cache, with the key a call
\* stored or read by a hit (None for none) moved to the end
Touch(order, key, c) ==
    LET kept == SelectSeq(order, LAMBDA k : k \in KeysOf(c) /\ k # key)
    IN  IF key # None /\ key \in KeysOf(c) THEN Append(kept, key) ELSE kept

\* the entries of c whose key is no longer in d
Removed(c, d) == SelectSeq(c, LAMBDA e : e.key \notin KeysOf(d))

NoLruCall ==
    [op |-> "none", key |-> None, value |-> None, at |-> 0, found |-> FALSE,
     expires_at |-> 0, removed |-> <<>>]

LruIdleThread == [pc |-> "idle", op |-> "none", key |-> None, time |-> 0]

InitLRU ==
    /\ question = <<>>
    /\ PipeIdle
    /\ GraphIdle
    /\ MemoryIdle
    /\ ParamsIdle
    /\ RouterIdle
    /\ CacheIdle
    /\ RepeatIdle
    /\ RetryIdle
    /\ RequestsIdle
    /\ lru_cache = <<>>
    /\ lru_clock = 0
    /\ lru_threads = [t \in LruThreads |-> LruIdleThread]
    /\ lru_recency = <<>>
    /\ lru_last = NoLruCall

\* LRUCache.get(key)
LruGet(t) ==
    /\ lru_threads[t].pc = "idle"
    /\ \E key \in LruKeys :
          LET r == LRUCache_get(lru_cache, key, lru_clock)
              i == IndexOfKey(lru_cache, key)
          IN  /\ lru_cache' = r.cache
              /\ lru_recency' = Touch(lru_recency,
                                      IF r.value # None THEN key ELSE None, r.cache)
              /\ lru_last' = [op |-> "get", key |-> key, value |-> r.value,
                              at |-> lru_clock, found |-> i # 0,
                              expires_at |-> IF i # 0 THEN lru_cache[i].expires_at ELSE 0,
                              removed |-> Removed(lru_cache, r.cache)]
    /\ UNCHANGED <<lru_clock, lru_threads>>
    /\ UNCHANGED outsideLRU

\* LRUCache.set(key, value, ttl) up to the lock: expires_at = time.time() + ttl
LruSetStart(t) ==
    /\ lru_threads[t].pc = "idle"
    /\ \E key \in LruKeys :
          lru_threads' = [lru_threads EXCEPT ![t] =
              [pc |-> "pending", op |-> "set", key |-> key, time |-> lru_clock + LruTTL]]
    /\ UNCHANGED <<lru_cache, lru_clock, lru_recency, lru_last>>
    /\ UNCHANGED outsideLRU

\* LRUCache.set inside the lock
LruSetBody(t) ==
    /\ lru_threads[t].pc = "pending"
    /\ lru_threads[t].op = "set"
    /\ LET key == lru_threads[t].key
           c   == LRUCache_set(lru_cache, key, CachedRows, lru_threads[t].time,
                               LruMaxSize)
       IN  /\ lru_cache' = c
           /\ lru_recency' = Touch(lru_recency, key, c)
           /\ lru_last' = [op |-> "set", key |-> key, value |-> None,
                           at |-> lru_clock, found |-> key \in KeysOf(lru_cache),
                           expires_at |-> lru_threads[t].time,
                           removed |-> Removed(lru_cache, c)]
    /\ lru_threads' = [lru_threads EXCEPT ![t] = LruIdleThread]
    /\ UNCHANGED lru_clock
    /\ UNCHANGED outsideLRU

\* LRUCache.delete(key)
LruDelete(t) ==
    /\ lru_threads[t].pc = "idle"
    /\ \E key \in LruKeys :
          LET c == LRUCache_delete(lru_cache, key) IN
          /\ lru_cache' = c
          /\ lru_recency' = Touch(lru_recency, None, c)
          /\ lru_last' = [op |-> "delete", key |-> key, value |-> None,
                          at |-> lru_clock, found |-> key \in KeysOf(lru_cache),
                          expires_at |-> 0, removed |-> Removed(lru_cache, c)]
    /\ UNCHANGED <<lru_clock, lru_threads>>
    /\ UNCHANGED outsideLRU

\* LRUCache.clear()
LruClear(t) ==
    /\ lru_threads[t].pc = "idle"
    /\ lru_cache # <<>>
    /\ lru_cache' = LRUCache_clear(lru_cache)
    /\ lru_recency' = Touch(lru_recency, None, LRUCache_clear(lru_cache))
    /\ lru_last' = [op |-> "clear", key |-> None, value |-> None, at |-> lru_clock,
                    found |-> FALSE, expires_at |-> 0, removed |-> lru_cache]
    /\ UNCHANGED <<lru_clock, lru_threads>>
    /\ UNCHANGED outsideLRU

\* LRUCache.cleanup_expired() up to the lock: now = time.time()
LruCleanupStart(t) ==
    /\ lru_threads[t].pc = "idle"
    /\ lru_cache # <<>>
    /\ lru_threads' = [lru_threads EXCEPT ![t] =
          [pc |-> "pending", op |-> "cleanup_expired", key |-> None, time |-> lru_clock]]
    /\ UNCHANGED <<lru_cache, lru_clock, lru_recency, lru_last>>
    /\ UNCHANGED outsideLRU

\* LRUCache.cleanup_expired inside the lock
LruCleanupBody(t) ==
    /\ lru_threads[t].pc = "pending"
    /\ lru_threads[t].op = "cleanup_expired"
    /\ LET c == LRUCache_cleanup_expired(lru_cache, lru_threads[t].time) IN
          /\ lru_cache' = c
          /\ lru_recency' = Touch(lru_recency, None, c)
          /\ lru_last' = [op |-> "cleanup_expired", key |-> None, value |-> None,
                          at |-> lru_clock, found |-> FALSE, expires_at |-> 0,
                          removed |-> Removed(lru_cache, c)]
    /\ lru_threads' = [lru_threads EXCEPT ![t] = LruIdleThread]
    /\ UNCHANGED lru_clock
    /\ UNCHANGED outsideLRU

LruTick ==
    /\ lru_clock < MaxLruClock
    /\ lru_clock' = lru_clock + 1
    /\ UNCHANGED <<lru_cache, lru_threads, lru_recency, lru_last>>
    /\ UNCHANGED outsideLRU

LruThread == \E t \in LruThreads :
    \/ LruGet(t) \/ LruSetStart(t) \/ LruSetBody(t) \/ LruDelete(t) \/ LruClear(t)
    \/ LruCleanupStart(t) \/ LruCleanupBody(t)

NextLRU == LruThread \/ LruTick

SpecLRU == InitLRU /\ [][NextLRU]_vars

\* C35: after any sequence of get, set, delete, clear and cleanup_expired
\* calls from several threads, the cache holds at most max_size entries, one
\* for a key.
C35_AtMostMaxSize ==
    /\ Len(lru_cache) <= LruMaxSize
    /\ Cardinality(KeysOf(lru_cache)) = Len(lru_cache)

\* a set of a new key found the cache full and left it full
C35_Witness ==
    /\ lru_last.op = "set"
    /\ ~lru_last.found
    /\ lru_last.removed # <<>>
    /\ Len(lru_cache) = LruMaxSize

\* C36: get never returns a value whose expiry time has passed: a get that
\* finds an expired entry removes it and returns None.
C36_NoExpiredValue ==
    lru_last.op = "get" =>
        /\ lru_last.value # None =>
              (lru_last.found /\ ~(lru_last.expires_at < lru_last.at))
        /\ (lru_last.found /\ lru_last.expires_at < lru_last.at) =>
              /\ lru_last.value = None
              /\ lru_last.key \notin KeysOf(lru_cache)
              /\ Len(lru_last.removed) = 1
              /\ lru_last.removed[1].key = lru_last.key

\* a get found an entry whose expiry time had passed
C36_Witness ==
    /\ lru_last.op = "get"
    /\ lru_last.found
    /\ lru_last.expires_at < lru_last.at
    /\ lru_last.value = None

\* C39: a set of a new key on a full cache evicts the key least recently
\* stored or read by a hit, and only that key.
C39_EvictsLeastRecent ==
    [][\A t \in LruThreads :
          (/\ lru_threads[t].pc = "pending"
           /\ lru_threads[t].op = "set"
           /\ lru_threads'[t].pc = "idle"
           /\ lru_threads[t].key \notin KeysOf(lru_cache)
           /\ Len(lru_cache) >= LruMaxSize)
              => /\ KeysOf(lru_cache) \ KeysOf(lru_cache') = {lru_recency[1]}
                 /\ lru_threads[t].key \in KeysOf(lru_cache')]_vars

\* a set evicted an entry stored after an entry that stayed: the one that
\* stayed had been read by a hit or set again since
C39_Witness ==
    /\ lru_last.op = "set"
    /\ ~lru_last.found
    /\ \E i \in 1..Len(lru_last.removed), j \in 1..Len(lru_cache) :
          /\ lru_cache[j].key # lru_last.key
          /\ lru_cache[j].expires_at < lru_last.removed[i].expires_at
-----------------------------------------------------------------------------
(* Requests of /chat/stream sharing the process-wide _chat_memories: the   *)
(* request handlers and the stream generators are coroutines of one event  *)
(* loop, which changes coroutine only where one of them awaits or yields.  *)

ChatRequests == {"req1", "req2"}

\* thread_id = conversation_id or f"thread-{trace_id}"
RequestThread(r, conv) == IF conv = None THEN "thread-" \o r ELSE conv

RequestThreads == { RequestThread(r, conv) : r \in ChatRequests, conv \in {None, "conv-1"} }

\* the event loop can run another coroutine at every point
AwaitPoint_anywhere(pc) == TRUE

\* the points of chat_stream and generate_ai_sdk_stream where the event loop
\* can run another coroutine: before the handler starts, between the return
\* of the StreamingResponse and the first step of the generator, at the
\* yields of the generator, and after the generator ended
AwaitPoint(pc) == pc \in {"handler", "stream", "streaming", "done"}

\* the position after the two statements of get_chat_memory
AfterGet(pc) == IF pc = "h_assign" THEN "h_add" ELSE "streaming"

RequestHolds(r) == rq_reqs[r].mem # 0

InitRequests ==
    /\ question = <<>>
    /\ PipeIdle
    /\ GraphIdle
    /\ MemoryIdle
    /\ ParamsIdle
    /\ RouterIdle
    /\ CacheIdle
    /\ RepeatIdle
    /\ RetryIdle
    /\ LRUIdle
    /\ rq_registry = [th \in RequestThreads |-> 0]
    /\ rq_heap = <<>>
    /\ \E conv \in [ChatRequests -> {None, "conv-1"}] :
          rq_reqs = [r \in ChatRequests |->
                       [pc |-> "handler", thread |-> RequestThread(r, conv[r]),
                        mem |-> 0, absent |-> FALSE, sent |-> <<>>]]
    /\ rq_running = None

\* the coroutine of request r holds the event loop, or nobody does
OnLoop(r) == rq_running \in {None, r}

\* the event loop after request r moved to position pc
Yielded(r, pc) == IF AwaitPoint(pc) THEN None ELSE r

\* get_chat_memory: "if thread_id not in _chat_memories"
GetChatMemoryContains(r) ==
    /\ OnLoop(r)
    /\ rq_reqs[r].pc \in {"handler", "stream"}
    /\ LET pc == IF rq_reqs[r].pc = "handler" THEN "h_assign" ELSE "s_assign"
       IN  /\ rq_reqs' = [rq_reqs EXCEPT ![r] =
                  [@ EXCEPT !.pc = pc,
                            !.absent = rq_registry[rq_reqs[r].thread] = 0]]
           /\ rq_running' = Yielded(r, pc)
    /\ UNCHANGED <<rq_registry, rq_heap>>
    /\ UNCHANGED outsideRequests

\* get_chat_memory: "_chat_memories[thread_id] = ChatMemory(...)" when the
\* test found no memory, then "return _chat_memories[thread_id]"
GetChatMemoryReturn(r) ==
    /\ OnLoop(r)
    /\ rq_reqs[r].pc \in {"h_assign", "s_assign"}
    /\ LET th       == rq_reqs[r].thread
           heap     == IF rq_reqs[r].absent
                       THEN Append(rq_heap, NewChatMemory(th))
                       ELSE rq_heap
           registry == IF rq_reqs[r].absent
                       THEN [rq_registry EXCEPT ![th] = Len(heap)]
                       ELSE rq_registry
           pc       == AfterGet(rq_reqs[r].pc)
       IN  /\ rq_heap' = heap
           /\ rq_registry' = registry
           /\ rq_reqs' = [rq_reqs EXCEPT ![r] =
                  [@ EXCEPT !.pc = pc, !.mem = registry[th]]]
           /\ rq_running' = Yielded(r, pc)
    /\ UNCHANGED outsideRequests

\* "self._messages.append(msg)" of add_message_sync on the memory the
\* request holds
AppendTurn(r, role, pc) ==
    /\ rq_heap' = [rq_heap EXCEPT ![rq_reqs[r].mem].messages =
                      Append(@, <<r, role>>)]
    /\ rq_reqs' = [rq_reqs EXCEPT ![r] =
                      [@ EXCEPT !.pc = pc, !.sent = Append(@, role)]]
    /\ rq_running' = Yielded(r, pc)

\* chat_stream: the user message is saved, the StreamingResponse returned
SaveUserMessage(r) ==
    /\ OnLoop(r)
    /\ rq_reqs[r].pc = "h_add"
    /\ AppendTurn(r, "user", "stream")
    /\ UNCHANGED rq_registry
    /\ UNCHANGED outsideRequests

\* generate_ai_sdk_stream: the complete event with a conclusion saves the
\* assistant message; a stream without conclusion saves nothing
StreamEvents(r) ==
    /\ OnLoop(r)
    /\ rq_reqs[r].pc = "streaming"
    /\ \E conclusion \in BOOLEAN :
          IF conclusion
          THEN AppendTurn(r, "assistant", "done")
          ELSE /\ rq_reqs' = [rq_reqs EXCEPT ![r].pc = "done"]
               /\ rq_running' = Yielded(r, "done")
               /\ UNCHANGED rq_heap
    /\ UNCHANGED rq_registry
    /\ UNCHANGED outsideRequests

ChatRequest(r) ==
    \/ GetChatMemoryContains(r) \/ GetChatMemoryReturn(r)
    \/ SaveUserMessage(r) \/ StreamEvents(r)

NextRequests == \E r \in ChatRequests : ChatRequest(r)

SpecRequests == InitRequests /\ [][NextRequests]_vars

\* the turns a ChatMemory object holds
TurnsOf(mem) == { rq_heap[mem].messages[i] : i \in 1..Len(rq_heap[mem].messages) }

\* C38: the requests of one thread_id hold the same ChatMemory, the one the
\* registry has for the thread, also when their first calls are concurrent,
\* and every turn one of them appended is in the memory the others hold.
C38_SameInstance ==
    \A r \in ChatRequests : \A q \in ChatRequests :
        (RequestHolds(r) /\ RequestHolds(q)
            /\ rq_reqs[r].thread = rq_reqs[q].thread)
        => /\ rq_reqs[r].mem = rq_reqs[q].mem
           /\ rq_reqs[r].mem = rq_registry[rq_reqs[r].thread]
           /\ \A i \in 1..Len(rq_reqs[r].sent) :
                 <<r, rq_reqs[r].sent[i]>> \in TurnsOf(rq_reqs[q].mem)

\* two requests of one conversation are both under way, neither stream has
\* ended, and both have appended their user turn
C38_Witness ==
    \E r \in ChatRequests : \E q \in ChatRequests \ {r} :
        /\ rq_reqs[r].thread = rq_reqs[q].thread
        /\ rq_reqs[r].pc = "streaming"
        /\ rq_reqs[q].pc = "stream"
        /\ rq_reqs[r].sent = <<"user">>
        /\ rq_reqs[q].sent = <<"user">>
=============================================================================
